---- MODULE Spec2Model ----
(***************************************************************************)
(* Real-time connection registry, channel directory, liveness monitor,     *)
(* presence broadcaster, message router and call-signaling relay of        *)
(* server/websocket.ts (setupWebsocket), with the persistence collaborator *)
(* of server/agora.ts (MemStorage) behind it.                              *)
(*                                                                         *)
(* JavaScript runs one handler segment at a time: every action below is    *)
(* one run-to-completion segment of a handler (from an event or from the   *)
(* resumption after an await up to the next await or the end), or one      *)
(* completion of a storage call.  Timestamps are not modelled.             *)
(***************************************************************************)
EXTENDS Integers, Sequences, FiniteSets, TLC

\* ------------------------------------------------------------------ bounds
NConn == 3          \* connections ever accepted
NRouter == 2        \* connections accepted in a run of the message router
MaxEvents == 3      \* inbound frames handled in one run
MaxMissed == 3      \* cap of the per-connection count of unanswered sweeps
MaxTasks == 1       \* handlers suspended at an await at once
MaxFailures == 1    \* storage calls that fail in one run
MaxConcurrent == 2  \* handlers suspended at once where handlers race
MaxRaceEvents == 4  \* inbound frames handled where handlers race

\* ------------------------------------------------------------- value sets
Undef == "undefined"                  \* JavaScript undefined / null / missing field
Conns == 1..NConn
EmpIds == {"e1", "n1"}
LegacyId == 7                         \* a legacy numeric user id (0 stands for none)
Names == {"Dr. Smith"}
ChannelIds == {"C1", "C2"}
Patients == {"P1"}                    \* patient ids the patients collection resolves

\* JavaScript truthiness of an optional string / number
Truthy(s) == s # Undef /\ s # ""
TruthyNum(n) == n # 0

\* Number.prototype.toString on the numeric ids the model uses
NumToString(n) == IF n = 7 THEN "7" ELSE IF n = 8 THEN "8" ELSE "0"

VARIABLES
  ws,          \* per connection: readyState, empId, userId, username, channelId, isAlive
               \* (and sendThrows: the transport is failing and send() throws)
  channels,    \* Map<string, ExtendedWebSocket[]>: channel id -> member list
  messagesCollection,       \* persisted messages, in insertion order
  statusUpdatesCollection,  \* persisted status updates, in insertion order
  tasks,       \* handlers suspended at an await, in start order
  sent,        \* frames put on the wire by the last step: <<[to, f]>>
  last,        \* the last step: [op, conn, data]
  interval,    \* TRUE while the sweep timer is armed
  nev,         \* events handled so far
  nfail,       \* storage calls that failed so far
  fresh,       \* per connection: accepted or answered a ping since the last sweep
  missed       \* per connection: sweeps seen since its accept / last pong

vars == <<ws, channels, messagesCollection, statusUpdatesCollection, tasks, sent,
          last, interval, nev, nfail, fresh, missed>>

\* ------------------------------------------------------------ wire frames
NoFrame == [type |-> Undef, channelId |-> Undef, id |-> Undef, name |-> Undef,
            content |-> <<>>, attachments |-> <<>>, status |-> Undef,
            inCall |-> FALSE, lastSeen |-> FALSE, callType |-> Undef,
            detail |-> Undef, items |-> <<>>]

\* an inbound event: every field a client can put in a frame (missing = Undef / 0 / <<>>)
NoEvent == [type |-> Undef, empId |-> Undef, userId |-> 0, username |-> Undef,
            channelId |-> Undef, patientId |-> Undef, content |-> <<>>,
            attachments |-> <<>>, targetUserId |-> Undef, inviterId |-> Undef,
            inviterName |-> Undef, callType |-> Undef, response |-> Undef,
            status |-> Undef, inCall |-> FALSE, targetUsers |-> <<>>, action |-> Undef,
            responderName |-> Undef, hasTargetUsers |-> FALSE]

Step(op, c, data) == [op |-> op, conn |-> c, data |-> data]

NewSocket == [readyState |-> "NONE", empId |-> Undef, userId |-> 0, username |-> Undef,
              channelId |-> Undef, isAlive |-> FALSE, sendThrows |-> FALSE]

\* wss.clients: the accepted sockets whose close event has not been emitted, in accept order
Clients == {c \in Conns : ws[c].readyState \in {"OPEN", "CLOSING"}}

IsOpen(c) == ws[c].readyState = "OPEN"

\* client.send(...) throws on socket c
SendThrows(c) == ws[c].sendThrows

\* a forEach whose callback sends outside any try: the sockets reached before the
\* first send that throws (the exception leaves the loop)
RECURSIVE UntilThrow(_)
UntilThrow(cs) ==
  IF cs = <<>> THEN <<>>
  ELSE IF SendThrows(Head(cs)) THEN <<>>
  ELSE <<Head(cs)>> \o UntilThrow(Tail(cs))

\* the sockets of a set, in accept order
RECURSIVE InOrder(_)
InOrder(S) == IF S = {} THEN <<>>
              ELSE LET m == CHOOSE x \in S : \A y \in S : x <= y
                   IN <<m>> \o InOrder(S \ {m})

\* socket.send(JSON.stringify(f)) on each socket of the sequence, which are all OPEN
Deliver(cs, f) == [i \in 1..Len(cs) |-> [to |-> cs[i], f |-> f]]

\* ws.send(f): a socket that is not OPEN drops the frame, a failing one throws
Send(c, f) == IF IsOpen(c) /\ ~SendThrows(c) THEN <<[to |-> c, f |-> f]>> ELSE <<>>

\* ToAllClients restricted to the clients that have bound an empId
ToIdentifiedClients(f) ==
  Deliver(InOrder({c \in Clients : IsOpen(c) /\ Truthy(ws[c].empId)}), f)

\* wss.clients.forEach(client => { if (client.readyState === OPEN) client.send(f) })
\* (no try around client.send)
ToAllClients(f) == Deliver(UntilThrow(InOrder({c \in Clients : IsOpen(c)})), f)

\* channels.get(channelId) || []
Members(channelId) == IF channelId \in DOMAIN channels THEN channels[channelId] ELSE <<>>

\* broadcast's loop: one send per OPEN entry of the member list, in list order, each
\* in its own try
broadcastTo(clients, f) ==
  Deliver(SelectSeq(clients, LAMBDA c : IsOpen(c) /\ ~SendThrows(c)), f)

\* broadcast that ignores the channel: every open client gets the frame
broadcastEverywhere(channelId, f) == ToAllClients(f)

\* broadcast(channelId, data)
broadcast(channelId, f) == broadcastTo(Members(channelId), f)

\* ws.empId || (ws.userId ? ws.userId.toString() : '0')
IdentityOf(c) == IF Truthy(ws[c].empId) THEN ws[c].empId
                 ELSE IF TruthyNum(ws[c].userId) THEN NumToString(ws[c].userId) ELSE "0"

\* ws.empId || ws.userId?.toString()
StoredSenderOf(c) == IF Truthy(ws[c].empId) THEN ws[c].empId
                     ELSE IF TruthyNum(ws[c].userId) THEN NumToString(ws[c].userId)
                     ELSE Undef

\* ws.username || 'Unknown User'
DisplayNameOf(c) == IF Truthy(ws[c].username) THEN ws[c].username ELSE "Unknown User"

\* !ws.empId && !ws.userId
Unidentified(c) == ~Truthy(ws[c].empId) /\ ~TruthyNum(ws[c].userId)

PresenceFrame(empId, username, status, inCall, lastSeen) ==
  [NoFrame EXCEPT !.type = "userStatus", !.id = empId, !.name = username,
                  !.status = status, !.inCall = inCall, !.lastSeen = lastSeen]

SystemFrame(channelId, content) ==
  [NoFrame EXCEPT !.type = "system", !.channelId = channelId, !.content = content]

\* `${username} has joined the channel` / `${username} has left the channel`:
\* a text is the sequence of its parts
JoinedText(username) == <<username, " has joined the channel">>
LeftText(username) == <<username, " has left the channel">>

\* --------------------------------------------------- persistence collaborator
\* the document a storage call is given (message.attachments undefined = <<>>)
NoDoc == [type |-> Undef, channelId |-> Undef, senderId |-> Undef, content |-> <<>>,
          attachments |-> <<>>, patientId |-> Undef, status |-> Undef,
          createdBy |-> Undef]

\* insertOne that keeps only the newest document of a collection
insertOneReplacing(collection, doc) == <<doc>>

\* collection.insertOne(doc): the collection grows by the document, at its end
insertOne(collection, doc) == Append(collection, doc)

\* MemStorage.addMessageToChannel: the document inserted into the messages collection
NewMessage(channelId, message) ==
  [message EXCEPT !.channelId = channelId,
                  !.type = IF Len(message.attachments) > 0 THEN "attachment"
                           ELSE IF Truthy(message.type) THEN message.type ELSE "text"]

\* getChannelMessages that skips the oldest message of the channel
ChannelMessagesSkipFirst(channelId) ==
  LET found == SelectSeq(messagesCollection, LAMBDA m : m.channelId = channelId)
  IN IF found = <<>> THEN <<>> ELSE Tail(found)

\* MemStorage.getChannelMessages: find({channelId}).sort({createdAt: 1})
ChannelMessages(channelId) ==
  SelectSeq(messagesCollection, LAMBDA m : m.channelId = channelId)

Reverse(s) == [i \in 1..Len(s) |-> s[Len(s) + 1 - i]]

\* MemStorage.getStatusUpdates: find({patientId}).sort({createdAt: -1})
StatusUpdatesOf(patientId) ==
  Reverse(SelectSeq(statusUpdatesCollection, LAMBDA u : u.patientId = patientId))

\* MemStorage.getChannelByPatientId: channelsCollection.findOne({patientId}), as the
\* _id of the channel document (Undef for null): patient P1 has channel C1, no other
ChannelOfPatient(patientId) == IF patientId = "P1" THEN "C1" ELSE Undef

\* ------------------------------------------------------- suspended handlers
\* a handler suspended at `await storage.<pc>(...)`: ready is FALSE until the storage
\* call has completed, then ok/rows hold what it returned
\* (who: the identity bound to the socket when the handler started; got: the types
\* of the frames the handler has sent to its own socket)
NewTask(c, kind, pc, ev, arg, frame) ==
  [conn |-> c, kind |-> kind, pc |-> pc, ev |-> ev, arg |-> arg, frame |-> frame,
   ready |-> FALSE, ok |-> FALSE, rows |-> <<>>,
   who |-> [empId |-> ws[c].empId, userId |-> ws[c].userId, username |-> ws[c].username],
   got |-> <<>>]

\* the handlers suspended at an await (a close handler's detached write is none)
Handlers == Len(SelectSeq(tasks, LAMBDA t : t.kind # "leave"))

RemoveAt(s, i) == [j \in 1..(Len(s) - 1) |-> IF j < i THEN s[j] ELSE s[j + 1]]

\* the frame types a sequence of sends delivers to connection c
TypesTo(c, out) ==
  LET mine == SelectSeq(out, LAMBDA d : d.to = c)
  IN [i \in 1..Len(mine) |-> mine[i].f.type]

\* -------------------------------------------------------------------- Init
Init ==
  /\ ws = [c \in Conns |-> NewSocket]
  /\ channels = <<>>
  /\ messagesCollection = <<>>
  /\ statusUpdatesCollection = <<>>
  /\ tasks = <<>>
  /\ sent = <<>>
  /\ last = Step("init", 0, NoEvent)
  /\ interval = TRUE
  /\ nev = 0
  /\ nfail = 0
  /\ fresh = [c \in Conns |-> FALSE]
  /\ missed = [c \in Conns |-> 0]

\* ----------------------------------------------------------- accept / pong
\* wss.on('connection'): both connection listeners; sockets are numbered in accept order
\* (a server that has closed accepts none)
Connect(c) ==
  /\ interval
  /\ ws[c].readyState = "NONE"
  /\ \A d \in Conns : d < c => ws[d].readyState # "NONE"
  /\ ws' = [ws EXCEPT ![c].readyState = "OPEN", ![c].isAlive = TRUE]
  /\ last' = Step("connect", c, NoEvent)
  /\ sent' = <<[to |-> c, f |-> [NoFrame EXCEPT !.type = "welcome"]]>>
  /\ fresh' = [fresh EXCEPT ![c] = TRUE]
  /\ missed' = [missed EXCEPT ![c] = 0]
  /\ UNCHANGED <<channels, messagesCollection, statusUpdatesCollection, tasks,
                 interval, nfail, nev>>

\* ws.on('pong')
Pong(c) ==
  /\ IsOpen(c)
  /\ ws' = [ws EXCEPT ![c].isAlive = TRUE]
  /\ last' = Step("pong", c, NoEvent)
  /\ sent' = <<>>
  /\ fresh' = [fresh EXCEPT ![c] = TRUE]
  /\ missed' = [missed EXCEPT ![c] = 0]
  /\ UNCHANGED <<channels, messagesCollection, statusUpdatesCollection, tasks,
                 interval, nfail, nev>>

\* ------------------------------------------------------------ liveness sweep
\* heartbeatOne without the eviction: the socket is pinged again
heartbeatOneLenient(s) == [s EXCEPT !.isAlive = FALSE]

\* heartbeatOne with the test inverted: a socket whose flag is set is terminated
heartbeatOneEager(s) ==
  IF s.isAlive = TRUE
  THEN [s EXCEPT !.readyState = "CLOSING"]
  ELSE [s EXCEPT !.isAlive = FALSE]

\* heartbeat's body for one socket: terminate it, or clear the flag and ping it
heartbeatOne(s) ==
  IF s.isAlive = FALSE
  THEN [s EXCEPT !.readyState = "CLOSING"]
  ELSE [s EXCEPT !.isAlive = FALSE]

\* heartbeat that waits for the suspended handlers: no sweep while one awaits storage
heartbeatWhenIdle ==
  /\ interval
  /\ tasks = <<>>
  /\ ws' = [c \in Conns |-> IF c \in Clients THEN heartbeatOne(ws[c]) ELSE ws[c]]
  /\ last' = Step("heartbeat", 0, NoEvent)
  /\ sent' = <<>>
  /\ fresh' = [c \in Conns |-> FALSE]
  /\ missed' = [c \in Conns |-> IF IsOpen(c) /\ missed[c] < MaxMissed
                                   THEN missed[c] + 1 ELSE missed[c]]
  /\ UNCHANGED <<channels, messagesCollection, statusUpdatesCollection, tasks,
                 interval, nfail, nev>>

\* setInterval(heartbeat, 30000): one run of heartbeat over wss.clients
heartbeat ==
  /\ interval
  /\ ws' = [c \in Conns |-> IF c \in Clients THEN heartbeatOne(ws[c]) ELSE ws[c]]
  /\ last' = Step("heartbeat", 0, NoEvent)
  /\ sent' = <<>>
  /\ fresh' = [c \in Conns |-> FALSE]
  /\ missed' = [c \in Conns |-> IF IsOpen(c) /\ missed[c] < MaxMissed
                                   THEN missed[c] + 1 ELSE missed[c]]
  /\ UNCHANGED <<channels, messagesCollection, statusUpdatesCollection, tasks,
                 interval, nfail, nev>>

\* ------------------------------------------------------------------- close
\* clients.indexOf(ws) / clients.splice(index, 1): the first entry of c is removed
RemoveFirst(s, c) ==
  IF \E i \in 1..Len(s) : s[i] = c
  THEN RemoveAt(s, CHOOSE i \in 1..Len(s) : s[i] = c /\ \A j \in 1..(i - 1) : s[j] # c)
  ELSE s

\* the close handler's channel branch is taken: ws.channelId && ws.username
LeavesChannel(c) == Truthy(ws[c].channelId) /\ Truthy(ws[c].username)

\* ChannelsAfterClose that drops a channel whose last member left
ChannelsAfterClosePruned(c) ==
  IF LeavesChannel(c) /\ ws[c].channelId \in DOMAIN channels
  THEN IF RemoveFirst(channels[ws[c].channelId], c) = <<>>
       THEN [k \in DOMAIN channels \ {ws[c].channelId} |-> channels[k]]
       ELSE [channels EXCEPT ![ws[c].channelId] = RemoveFirst(@, c)]
  ELSE channels

\* the member lists after the close handler of c
ChannelsAfterClose(c) ==
  IF LeavesChannel(c) /\ ws[c].channelId \in DOMAIN channels
  THEN [channels EXCEPT ![ws[c].channelId] = RemoveFirst(@, c)]
  ELSE channels

\* OfflineNotices without the legacy id fallback: only an empId counts as an identity
OfflineNoticesEmpIdOnly(c) ==
  IF Truthy(ws[c].empId)
  THEN Deliver(InOrder({d \in Clients \ {c} : IsOpen(d)}),
               PresenceFrame(IdentityOf(c), DisplayNameOf(c), "offline", FALSE, TRUE))
  ELSE <<>>

\* the close handler's presence loop: `offline` to every other client that is OPEN,
\* when the closing socket has an empId or a legacy id (no try around client.send)
OfflineNotices(c) ==
  IF ~Unidentified(c)
  THEN Deliver(UntilThrow(InOrder({d \in Clients \ {c} : IsOpen(d)})),
               PresenceFrame(IdentityOf(c), DisplayNameOf(c), "offline", FALSE, TRUE))
  ELSE <<>>

\* a send of the close handler's presence loop throws: the exception leaves the
\* listener before the channel branch
PresenceLoopThrows(c) ==
  ~Unidentified(c) /\ \E d \in Clients \ {c} : IsOpen(d) /\ SendThrows(d)

\* ws.on('close'): the transport closed (by the peer, by an error, or after terminate())
Close(c) ==
  /\ c \in Clients
  /\ ws' = [ws EXCEPT ![c].readyState = "CLOSED"]
  /\ channels' = IF PresenceLoopThrows(c) THEN channels ELSE ChannelsAfterClose(c)
  /\ last' = Step("close", c, NoEvent)
  /\ LET after == ChannelsAfterClose(c)
         left == IF LeavesChannel(c) /\ ~PresenceLoopThrows(c)
                 THEN broadcastTo(SelectSeq(IF ws[c].channelId \in DOMAIN after
                                            THEN after[ws[c].channelId] ELSE <<>>,
                                            LAMBDA d : d # c),
                                  SystemFrame(ws[c].channelId, LeftText(ws[c].username)))
                 ELSE <<>>
     IN /\ sent' = OfflineNotices(c) \o left
        /\ tasks' = IF LeavesChannel(c) /\ ~PresenceLoopThrows(c)
                     THEN Append(tasks,
                            NewTask(c, "leave", "addMessageToChannel", NoEvent,
                                    [NoDoc EXCEPT !.type = "system",
                                                  !.channelId = ws[c].channelId,
                                                  !.senderId = StoredSenderOf(c),
                                                  !.content = LeftText(ws[c].username)],
                                    NoFrame))
                     ELSE tasks
  /\ UNCHANGED <<messagesCollection, statusUpdatesCollection, interval, nev, nfail, fresh, missed>>

\* ---------------------------------------------------------------- identity
AuthEvent(e, n, u) ==
  [NoEvent EXCEPT !.type = "auth", !.empId = e, !.username = n, !.userId = u]

\* identity payloads: empId and username, empId alone, a legacy id alone, nothing
AuthEvents ==
  {AuthEvent("e1", "Dr. Smith", 0), AuthEvent("n1", Undef, 0),
   AuthEvent(Undef, "Dr. Smith", LegacyId), AuthEvent(Undef, Undef, 0)}

\* bind that keeps what the payload does not supply: a field of an earlier binding
\* survives an identity event without it
bindMerge(s, data) ==
  [s EXCEPT !.empId = IF Truthy(data.empId) THEN data.empId ELSE @,
            !.userId = IF TruthyNum(data.userId) THEN data.userId ELSE @,
            !.username = IF Truthy(data.username) THEN data.username ELSE @]

\* ws.empId = data.empId; ws.userId = data.userId || null; ws.username = data.username
bind(s, data) ==
  [s EXCEPT !.empId = data.empId, !.userId = data.userId, !.username = data.username]

\* AuthOutput that announces any identity: a legacy id or a username is enough
AuthOutputAnyIdentity(data) ==
  IF Truthy(data.empId) \/ TruthyNum(data.userId) \/ Truthy(data.username)
  THEN ToAllClients(PresenceFrame(data.empId, data.username, "online", FALSE, FALSE))
  ELSE <<>>

\* if (ws.empId) wss.clients.forEach(client => OPEN && client.send(presence online))
AuthOutput(data) ==
  IF Truthy(data.empId)
  THEN ToAllClients(PresenceFrame(data.empId, data.username, "online", FALSE, FALSE))
  ELSE <<>>

\* case 'auth'
Auth(c, data) ==
  /\ IsOpen(c)
  /\ nev < MaxEvents
  /\ nev' = nev + 1
  /\ ws' = [ws EXCEPT ![c] = bind(@, data)]
  /\ last' = Step("auth", c, data)
  /\ sent' = AuthOutput(data)
  /\ UNCHANGED <<channels, messagesCollection, statusUpdatesCollection, tasks,
                 interval, nfail, fresh, missed>>

\* -------------------------------------------------------------------- join
JoinEvents ==
  {[NoEvent EXCEPT !.type = "join", !.channelId = ch, !.patientId = p, !.username = n] :
     ch \in ChannelIds \cup {Undef}, p \in Patients \cup {Undef},
     n \in Names \cup {Undef}}

\* Subscribe with set semantics: a socket already listed is not listed again
SubscribeOnce(chs, channelId, c) ==
  [k \in DOMAIN chs \cup {channelId} |->
     IF k = channelId
     THEN IF k \in DOMAIN chs
          THEN IF \E i \in 1..Len(chs[k]) : chs[k][i] = c THEN chs[k] ELSE Append(chs[k], c)
          ELSE <<c>>
     ELSE chs[k]]

\* channels.has(channelId) || channels.set(channelId, []); channels.get(channelId).push(ws)
Subscribe(chs, channelId, c) ==
  [k \in DOMAIN chs \cup {channelId} |->
     IF k = channelId
     THEN Append(IF k \in DOMAIN chs THEN chs[k] ELSE <<>>, c)
     ELSE chs[k]]

\* case 'join', up to `await storage.getChannelMessages(channelId)`
Join(c, data) ==
  /\ IsOpen(c)
  /\ nev < MaxEvents
  /\ nev' = nev + 1
  /\ ws' = [ws EXCEPT ![c].channelId = data.channelId]
  /\ channels' = Subscribe(channels, data.channelId, c)
  /\ tasks' = Append(tasks, NewTask(c, "join", "getChannelMessages", data, NoDoc, NoFrame))
  /\ last' = Step("join", c, data)
  /\ sent' = <<>>
  /\ UNCHANGED <<messagesCollection, statusUpdatesCollection, interval, nfail, fresh, missed>>

\* ------------------------------------------------------ message / attachment
NoAttachment == [type |-> Undef, url |-> Undef, name |-> Undef, size |-> 0,
                 mimeType |-> Undef, thumbnailUrl |-> Undef]

AttachmentInputs == {<<>>, <<[NoAttachment EXCEPT !.url = "u1"]>>}

Contents == {<<"hello">>}

ChatEvents ==
  {[NoEvent EXCEPT !.type = t, !.channelId = ch, !.content = x, !.attachments = a] :
     t \in {"message", "attachment"}, ch \in ChannelIds \cup {Undef},
     x \in Contents, a \in AttachmentInputs}

\* isAttachment decided by the type discriminator alone
isAttachmentByType(data) == data.type = "attachment"

\* an attachment with every field, and the attachment lists of a chat event: none,
\* one without type and name, two of which the second has an empty type
FullAttachment == [type |-> "document", url |-> "u2", name |-> "r.pdf", size |-> 10,
                   mimeType |-> "application/pdf", thumbnailUrl |-> "t2"]

ClassifiedAttachments ==
  {<<>>, <<[NoAttachment EXCEPT !.url = "u1"]>>,
   <<FullAttachment, [NoAttachment EXCEPT !.url = "u1", !.type = "", !.name = "x.png"]>>}

ClassifiedChats ==
  {[NoEvent EXCEPT !.type = t, !.channelId = "C1", !.content = x, !.attachments = a] :
     t \in {"message", "attachment"}, x \in Contents, a \in ClassifiedAttachments}

\* data.type === 'attachment' || (attachments && attachments.length > 0)
isAttachment(data) == data.type = "attachment" \/ Len(data.attachments) > 0

\* formattedAttachments that passes the inbound attachments through
formattedAttachmentsRaw(attachments) == attachments

\* formattedAttachments (undefined is <<>>)
formattedAttachments(attachments) ==
  [i \in 1..Len(attachments) |->
     [attachments[i] EXCEPT
        !.type = IF Truthy(attachments[i].type) THEN attachments[i].type ELSE "image",
        !.name = IF Truthy(attachments[i].name) THEN attachments[i].name ELSE "file"]]

\* the chatMessage object of case 'message' / 'attachment'
chatMessage(c, data) ==
  [NoFrame EXCEPT !.type = IF isAttachment(data) THEN "attachment" ELSE "message",
                  !.channelId = data.channelId,
                  !.id = IdentityOf(c),
                  !.name = DisplayNameOf(c),
                  !.content = data.content,
                  !.attachments = formattedAttachments(data.attachments)]

\* the document case 'message' / 'attachment' hands to storage.addMessageToChannel
chatDocument(c, data) ==
  [NoDoc EXCEPT !.type = IF isAttachment(data) THEN "attachment" ELSE "text",
                !.senderId = StoredSenderOf(c),
                !.content = data.content,
                !.attachments = formattedAttachments(data.attachments)]

\* ChatRejected without the channelId test
ChatRejectedUnidentified(c, data) == Unidentified(c)

\* the guard of case 'message' / 'attachment': (!ws.empId && !ws.userId) || !channelId
ChatRejected(c, data) == Unidentified(c) \/ ~Truthy(data.channelId)

\* case 'message' / 'attachment', up to `await storage.addMessageToChannel(...)`
Message(c, data) ==
  /\ IsOpen(c)
  /\ nev < MaxEvents
  /\ nev' = nev + 1
  /\ tasks' = IF ChatRejected(c, data) THEN tasks
              ELSE Append(tasks, NewTask(c, "chat", "addMessageToChannel", data,
                                         chatDocument(c, data), chatMessage(c, data)))
  /\ last' = Step("chat", c, data)
  /\ sent' = <<>>
  /\ UNCHANGED <<ws, channels, messagesCollection, statusUpdatesCollection, interval, nfail,
                 fresh, missed>>

\* ------------------------------------------------------------- statusUpdate
StatusUpdateEvents ==
  {[NoEvent EXCEPT !.type = "statusUpdate", !.patientId = p, !.status = "stable"] :
     p \in {"P1", "P2", Undef}}

\* the guard of case 'statusUpdate': (!ws.empId && !ws.userId) || !patientId
StatusRejected(c, data) == Unidentified(c) \/ ~Truthy(data.patientId)

\* the document case 'statusUpdate' hands to storage.addStatusUpdate
statusDocument(c, data) ==
  [NoDoc EXCEPT !.patientId = data.patientId, !.status = data.status,
                !.createdBy = StoredSenderOf(c)]

\* the statusMessage of case 'statusUpdate', built after the awaits
\* (id: createdBy, name: createdByName, detail: patientId)
statusMessage(t) ==
  [NoFrame EXCEPT !.type = "statusUpdate", !.detail = t.ev.patientId,
                  !.status = t.ev.status, !.id = IdentityOf(t.conn),
                  !.name = DisplayNameOf(t.conn)]

\* StatusOutput as a global broadcast
StatusOutputToAll(t) == IF t.ok THEN ToAllClients(statusMessage(t)) ELSE <<>>

\* case 'statusUpdate' after `await storage.getChannelByPatientId(patientId)`:
\* if (channel) broadcast(channel._id.toString(), statusMessage)
StatusOutput(t) ==
  IF t.ok THEN broadcast(ChannelOfPatient(t.ev.patientId), statusMessage(t)) ELSE <<>>

\* case 'statusUpdate', up to `await storage.addStatusUpdate(...)`
StatusUpdate(c, data) ==
  /\ IsOpen(c)
  /\ nev < MaxEvents
  /\ nev' = nev + 1
  /\ tasks' = IF StatusRejected(c, data) THEN tasks
              ELSE Append(tasks, NewTask(c, "status", "addStatusUpdate", data,
                                         statusDocument(c, data), NoFrame))
  /\ last' = Step("statusUpdate", c, data)
  /\ sent' = <<>>
  /\ UNCHANGED <<ws, channels, messagesCollection, statusUpdatesCollection, interval, nfail,
                 fresh, missed>>

\* ------------------------------------------------------- storage completions
\* the storage call task i awaits completes: ok is FALSE when the collaborator threw
\* (MemStorage catches, logs and returns null / [])
StorageReturn(i, ok) ==
  /\ i \in 1..Len(tasks)
  /\ ~tasks[i].ready
  /\ ok \/ nfail < MaxFailures
  /\ nfail' = IF ok THEN nfail ELSE nfail + 1
  /\ last' = Step("storage", tasks[i].conn, tasks[i].ev)
  /\ LET t == tasks[i]
         channelId == IF t.kind = "chat" THEN t.ev.channelId ELSE t.arg.channelId
         done == [t EXCEPT !.ready = TRUE, !.ok = ok]
     IN CASE t.pc = "addMessageToChannel" ->
               /\ messagesCollection' =
                    IF ok THEN insertOne(messagesCollection, NewMessage(channelId, t.arg))
                    ELSE messagesCollection
               /\ tasks' = IF t.kind = "leave" THEN RemoveAt(tasks, i)
                           ELSE [tasks EXCEPT ![i] = done]
          [] t.pc = "getChannelMessages" ->
               /\ tasks' = [tasks EXCEPT ![i] =
                              [done EXCEPT !.rows = IF ok THEN ChannelMessages(t.ev.channelId)
                                                    ELSE <<>>]]
               /\ UNCHANGED messagesCollection
          [] t.pc = "getPatientById" ->
               /\ tasks' = [tasks EXCEPT ![i] =
                              [done EXCEPT !.ok = ok /\ t.ev.patientId \in Patients]]
               /\ UNCHANGED messagesCollection
          [] t.pc = "getStatusUpdates" ->
               /\ tasks' = [tasks EXCEPT ![i] =
                              [done EXCEPT !.rows = IF ok THEN StatusUpdatesOf(t.ev.patientId)
                                                    ELSE <<>>]]
               /\ UNCHANGED messagesCollection
          [] t.pc = "addStatusUpdate" ->
               /\ tasks' = [tasks EXCEPT ![i] = done]
               /\ UNCHANGED messagesCollection
          [] t.pc = "getChannelByPatientId" ->
               /\ tasks' = [tasks EXCEPT ![i] =
                              [done EXCEPT !.ok = ok /\ Truthy(ChannelOfPatient(t.ev.patientId))]]
               /\ UNCHANGED messagesCollection
  /\ statusUpdatesCollection' =
       IF tasks[i].pc = "addStatusUpdate" /\ ok
       THEN insertOne(statusUpdatesCollection, tasks[i].arg)
       ELSE statusUpdatesCollection
  /\ sent' = <<>>
  /\ UNCHANGED <<ws, channels, interval, nev, fresh, missed>>

\* ------------------------------------------------------- handler resumptions
\* case 'join' from the system broadcast to `await storage.addMessageToChannel(...)`
JoinAnnounce(t) ==
  [t EXCEPT !.pc = "addMessageToChannel", !.ready = FALSE,
            !.arg = [NoDoc EXCEPT !.type = "system",
                                  !.channelId = t.ev.channelId,
                                  !.senderId = StoredSenderOf(t.conn),
                                  !.content = JoinedText(t.ev.username)]]

JoinedFrame(t) == SystemFrame(t.ev.channelId, JoinedText(t.ev.username))

\* JoinOutput with the join announced as soon as the handler first resumes
JoinOutputAnnounceFirst(t) ==
  CASE t.pc = "getChannelMessages" ->
         broadcast(t.ev.channelId, JoinedFrame(t))
           \o Send(t.conn, [NoFrame EXCEPT !.type = "history", !.items = t.rows])
    [] t.pc = "getStatusUpdates" ->
         Send(t.conn, [NoFrame EXCEPT !.type = "statusUpdates", !.items = t.rows])
    [] OTHER -> <<>>

\* JoinOutput that sends the history batch only when the listing succeeded
JoinOutputHistoryIfListed(t) ==
  CASE t.pc = "getChannelMessages" ->
         IF t.ok THEN Send(t.conn, [NoFrame EXCEPT !.type = "history", !.items = t.rows])
         ELSE <<>>
    [] t.pc = "getPatientById" ->
         IF t.ok THEN <<>> ELSE broadcast(t.ev.channelId, JoinedFrame(t))
    [] t.pc = "getStatusUpdates" ->
         Send(t.conn, [NoFrame EXCEPT !.type = "statusUpdates", !.items = t.rows])
           \o broadcast(t.ev.channelId, JoinedFrame(t))
    [] OTHER -> <<>>

\* what the join handler of task t sends when it resumes at t.pc
JoinOutput(t) ==
  CASE t.pc = "getChannelMessages" ->
         Send(t.conn, [NoFrame EXCEPT !.type = "history", !.items = t.rows])
    [] t.pc = "getPatientById" ->
         IF t.ok THEN <<>> ELSE broadcast(t.ev.channelId, JoinedFrame(t))
    [] t.pc = "getStatusUpdates" ->
         Send(t.conn, [NoFrame EXCEPT !.type = "statusUpdates", !.items = t.rows])
           \o broadcast(t.ev.channelId, JoinedFrame(t))
    [] OTHER -> <<>>

\* the join handler of task t after it resumed at t.pc (suspended at the next await)
JoinNext(t) ==
  CASE t.pc = "getChannelMessages" -> [t EXCEPT !.pc = "getPatientById", !.ready = FALSE]
    [] t.pc = "getPatientById" ->
         IF t.ok THEN [t EXCEPT !.pc = "getStatusUpdates", !.ready = FALSE]
         ELSE JoinAnnounce(t)
    [] t.pc = "getStatusUpdates" -> JoinAnnounce(t)
    [] OTHER -> t

\* ChatOutput gated on the saved message: nothing is broadcast when storage failed
ChatOutputIfSaved(t) == IF t.ok THEN broadcast(t.ev.channelId, t.frame) ELSE <<>>

\* case 'message' / 'attachment' after the await: broadcast(channelId, chatMessage)
ChatOutput(t) == broadcast(t.ev.channelId, t.frame)

\* the ws.send of the join handler that resumes at t.pc throws: the catch of the
\* message listener ends the handler
JoinThrows(t) ==
  /\ t.pc \in {"getChannelMessages", "getStatusUpdates"}
  /\ IsOpen(t.conn) /\ SendThrows(t.conn)

\* the handler of task i resumes after its await and runs to its next await or its end
Continue(i) ==
  /\ i \in 1..Len(tasks)
  /\ tasks[i].ready
  /\ last' = Step("resume", tasks[i].conn, tasks[i].ev)
  /\ LET t == tasks[i]
     IN CASE t.kind = "join" /\ t.pc # "addMessageToChannel" /\ JoinThrows(t) ->
               /\ sent' = <<>>
               /\ tasks' = RemoveAt(tasks, i)
          [] t.kind = "join" /\ t.pc # "addMessageToChannel" /\ ~JoinThrows(t) ->
               /\ sent' = JoinOutput(t)
               /\ tasks' = [tasks EXCEPT ![i] =
                              [JoinNext(t) EXCEPT !.got = @ \o TypesTo(t.conn, JoinOutput(t))]]
          [] t.kind = "join" /\ t.pc = "addMessageToChannel" ->
               /\ sent' = <<>>
               /\ tasks' = RemoveAt(tasks, i)
          [] t.kind = "chat" ->
               /\ sent' = ChatOutput(t)
               /\ tasks' = RemoveAt(tasks, i)
          [] t.kind = "status" /\ t.pc = "addStatusUpdate" ->
               /\ sent' = <<>>
               /\ tasks' = [tasks EXCEPT ![i] =
                              [t EXCEPT !.pc = "getChannelByPatientId", !.ready = FALSE]]
          [] t.kind = "status" /\ t.pc = "getChannelByPatientId" ->
               /\ sent' = StatusOutput(t)
               /\ tasks' = RemoveAt(tasks, i)
  /\ UNCHANGED <<ws, channels, messagesCollection, statusUpdatesCollection, interval, nfail,
                 nev, fresh, missed>>

\* ------------------------------------------------------------- call relay
CallInvitationEvents ==
  {[NoEvent EXCEPT !.type = "callInvitation", !.channelId = ch, !.callType = "voice",
                   !.targetUserId = tg, !.inviterId = iv, !.inviterName = n] :
     ch \in {"C1", Undef}, tg \in EmpIds \cup {NumToString(LegacyId), Undef},
     iv \in {"e1", Undef}, n \in Names \cup {Undef}}

\* MatchesIdentity without the readyState test: any registered socket can match
MatchesIdentityAnyState(c, id) ==
  \/ Truthy(ws[c].empId) /\ ws[c].empId = id
  \/ TruthyNum(ws[c].userId) /\ NumToString(ws[c].userId) = id

\* the scan's test: client.readyState === OPEN && ((clientEmpId && clientEmpId === id)
\*                  || (clientIdStr && clientIdStr === id.toString()))
MatchesIdentity(c, id) ==
  /\ IsOpen(c)
  /\ \/ Truthy(ws[c].empId) /\ ws[c].empId = id
     \/ TruthyNum(ws[c].userId) /\ NumToString(ws[c].userId) = id

\* findByIdentity without the legacy id fallback
findByEmpId(id) ==
  LET found == {c \in Clients : IsOpen(c) /\ Truthy(ws[c].empId) /\ ws[c].empId = id}
  IN IF found = {} THEN 0 ELSE CHOOSE c \in found : \A d \in found : d <= c

\* wss.clients.forEach(client => { if (matches) targetClient = client }): the last match
findByIdentity(id) ==
  LET found == {c \in Clients : MatchesIdentity(c, id)}
  IN IF found = {} THEN 0 ELSE CHOOSE c \in found : \A d \in found : d <= c

\* senderEmpId = inviterId || ws.empId || (ws.userId ? ws.userId.toString() : '0')
senderEmpId(c, data) == IF Truthy(data.inviterId) THEN data.inviterId ELSE IdentityOf(c)

\* senderName || 'Unknown User', senderName = inviterName || ws.username
senderName(c, data) ==
  IF Truthy(data.inviterName) THEN data.inviterName ELSE DisplayNameOf(c)

\* case 'callInvitation'
CallInvitation(c, data) ==
  /\ IsOpen(c)
  /\ nev < MaxEvents
  /\ nev' = nev + 1
  /\ last' = Step("callInvitation", c, data)
  /\ sent' = IF ~Truthy(senderEmpId(c, data)) \/ ~Truthy(data.channelId)
                 \/ ~Truthy(data.targetUserId)
                 \/ findByIdentity(data.targetUserId) = 0
                 \/ SendThrows(findByIdentity(data.targetUserId))
             THEN <<>>
             ELSE <<[to |-> findByIdentity(data.targetUserId),
                     f |-> [NoFrame EXCEPT !.type = "callInvitation",
                                           !.channelId = data.channelId,
                                           !.callType = data.callType,
                                           !.id = senderEmpId(c, data),
                                           !.name = senderName(c, data)]]>>
  /\ UNCHANGED <<ws, channels, messagesCollection, statusUpdatesCollection, tasks,
                 interval, nfail, fresh, missed>>

\* the events a client answers an invitation with
CallInvitationResponseEvents ==
  {[NoEvent EXCEPT !.type = "callInvitationResponse", !.channelId = "C1",
                   !.callType = "voice", !.inviterId = iv, !.response = r,
                   !.responderName = n] :
     iv \in {"e1", NumToString(LegacyId), Undef}, r \in {"accept", "decline"},
     n \in {"Mallory", Undef}}

\* the responseMessage of case 'callInvitationResponse'
\* (id: responderId, name: responderName, detail: response)
responseMessage(c, data) ==
  [NoFrame EXCEPT !.type = "callInvitationResponse",
                  !.channelId = data.channelId,
                  !.callType = data.callType,
                  !.id = IdentityOf(c),
                  !.name = IF Truthy(ws[c].username) THEN ws[c].username
                           ELSE IF Truthy(data.responderName) THEN data.responderName
                           ELSE "Unknown User",
                  !.detail = data.response]

\* ResponseOutput that tells the responder when the inviter is gone
ResponseOutputOrNack(c, data) ==
  IF ~Truthy(data.inviterId) \/ findByIdentity(data.inviterId) = 0
  THEN <<[to |-> c, f |-> responseMessage(c, data)]>>
  ELSE <<[to |-> findByIdentity(data.inviterId), f |-> responseMessage(c, data)]>>

\* what case 'callInvitationResponse' sends: the response to the inviter's socket
ResponseOutput(c, data) ==
  IF ~Truthy(data.inviterId) \/ findByIdentity(data.inviterId) = 0
     \/ SendThrows(findByIdentity(data.inviterId))
  THEN <<>>
  ELSE <<[to |-> findByIdentity(data.inviterId), f |-> responseMessage(c, data)]>>

\* case 'callInvitationResponse'
CallInvitationResponse(c, data) ==
  /\ IsOpen(c)
  /\ nev < MaxEvents
  /\ nev' = nev + 1
  /\ last' = Step("callInvitationResponse", c, data)
  /\ sent' = ResponseOutput(c, data)
  /\ UNCHANGED <<ws, channels, messagesCollection, statusUpdatesCollection, tasks,
                 interval, nfail, fresh, missed>>

\* ------------------------------------------------------------- call signal
\* targetUsers: none (or not an array), an empty array, one identity, two identities
CallSignalEvents ==
  {[NoEvent EXCEPT !.type = "callSignal", !.channelId = ch, !.callType = "voice",
                   !.action = "start", !.hasTargetUsers = tu[1], !.targetUsers = tu[2]] :
     ch \in {"C1", Undef},
     tu \in {<<FALSE, <<>>>>, <<TRUE, <<>>>>, <<TRUE, <<"e1">>>>,
             <<TRUE, <<"n1", NumToString(LegacyId)>>>>}}

\* Array.prototype.includes
includes(s, x) == \E i \in 1..Len(s) : s[i] = x

\* the callMessage of case 'callSignal' (id: callerId, name: callerName, detail: action)
callMessage(c, data) ==
  [NoFrame EXCEPT !.type = "callSignal", !.channelId = data.channelId,
                  !.id = IdentityOf(c), !.name = DisplayNameOf(c),
                  !.callType = data.callType, !.detail = data.action]

\* targetUsers && Array.isArray(targetUsers) && targetUsers.length > 0
isTargeted(data) == data.hasTargetUsers /\ Len(data.targetUsers) > 0

\* the targeted loop's test: OPEN && clientId && targetUsers.includes(clientId),
\* clientId = client.empId || (client.userId ? client.userId.toString() : null)
IsTarget(d, targetUsers) ==
  IsOpen(d) /\ ~Unidentified(d) /\ includes(targetUsers, IdentityOf(d))

\* the targeted loop: one send per target in the member list, each in its own try
targetedTo(clients, targetUsers, f) ==
  Deliver(SelectSeq(clients, LAMBDA d : IsTarget(d, targetUsers) /\ ~SendThrows(d)), f)

\* CallSignalOutput with the targets looked up in the registry, not in the channel
CallSignalOutputAnyChannel(c, data) ==
  IF Unidentified(c) \/ ~Truthy(data.channelId) THEN <<>>
  ELSE IF isTargeted(data)
       THEN Deliver(InOrder({d \in Clients : IsTarget(d, data.targetUsers)}),
                    callMessage(c, data))
       ELSE broadcast(data.channelId, callMessage(c, data))

\* what case 'callSignal' sends
CallSignalOutput(c, data) ==
  IF Unidentified(c) \/ ~Truthy(data.channelId) THEN <<>>
  ELSE IF isTargeted(data)
       THEN targetedTo(Members(data.channelId), data.targetUsers, callMessage(c, data))
       ELSE broadcast(data.channelId, callMessage(c, data))

\* CallSignal that also moves the sender's subscription to the signalled channel
CallSignalSubscribing(c, data) ==
  /\ IsOpen(c)
  /\ nev < MaxEvents
  /\ nev' = nev + 1
  /\ last' = Step("callSignal", c, data)
  /\ sent' = CallSignalOutput(c, data)
  /\ ws' = [ws EXCEPT ![c].channelId = data.channelId]
  /\ UNCHANGED <<channels, messagesCollection, statusUpdatesCollection, tasks,
                 interval, nfail, fresh, missed>>

\* case 'callSignal'
CallSignal(c, data) ==
  /\ IsOpen(c)
  /\ nev < MaxEvents
  /\ nev' = nev + 1
  /\ last' = Step("callSignal", c, data)
  /\ sent' = CallSignalOutput(c, data)
  /\ UNCHANGED <<ws, channels, messagesCollection, statusUpdatesCollection, tasks,
                 interval, nfail, fresh, missed>>

\* -------------------------------------------------------------- userStatus
UserStatusEvents ==
  {[NoEvent EXCEPT !.type = "userStatus", !.status = st, !.inCall = ic] :
     st \in {"online", "offline", "away"}, ic \in BOOLEAN}

\* the frame of case 'userStatus': lastSeen: status === 'offline' ? new Date() : undefined
userStatusMessage(c, data) ==
  PresenceFrame(IdentityOf(c), DisplayNameOf(c), data.status, data.inCall,
                data.status = "offline")

\* UserStatusOutput scoped to the channel the sender last joined
UserStatusOutputToChannel(c, data) ==
  IF Unidentified(c) THEN <<>> ELSE broadcast(ws[c].channelId, userStatusMessage(c, data))

\* what case 'userStatus' sends
UserStatusOutput(c, data) ==
  IF Unidentified(c) THEN <<>> ELSE ToAllClients(userStatusMessage(c, data))

\* case 'userStatus'
UserStatus(c, data) ==
  /\ IsOpen(c)
  /\ nev < MaxEvents
  /\ nev' = nev + 1
  /\ last' = Step("userStatus", c, data)
  /\ sent' = UserStatusOutput(c, data)
  /\ UNCHANGED <<ws, channels, messagesCollection, statusUpdatesCollection, tasks,
                 interval, nfail, fresh, missed>>

\* ------------------------------------------------- malformed and test frames
\* MalformedOutput with an error reply to the sender
MalformedOutputNack(c) == Send(c, [NoFrame EXCEPT !.type = "error"])

\* what the two message listeners send for a frame JSON.parse rejects: both catch
\* the SyntaxError and log it
MalformedOutput(c) == <<>>

\* ws.on('message') / socket.on('message') for an unparseable frame
Malformed(c) ==
  /\ IsOpen(c)
  /\ nev < MaxEvents
  /\ nev' = nev + 1
  /\ last' = Step("malformed", c, NoEvent)
  /\ sent' = MalformedOutput(c)
  /\ UNCHANGED <<ws, channels, messagesCollection, statusUpdatesCollection, tasks,
                 interval, nfail, fresh, missed>>

\* socket.on('message') for {type: 'ping'}: the test listener answers with a pong
\* frame; the switch of the main listener has no case for it
Ping(c) ==
  /\ IsOpen(c)
  /\ nev < MaxEvents
  /\ nev' = nev + 1
  /\ last' = Step("ping", c, [NoEvent EXCEPT !.type = "ping"])
  /\ sent' = Send(c, [NoFrame EXCEPT !.type = "pong"])
  /\ UNCHANGED <<ws, channels, messagesCollection, statusUpdatesCollection, tasks,
                 interval, nfail, fresh, missed>>

\* ------------------------------------------------------------ send failures
\* the transport of an open socket starts failing: from now on send() on it throws
SendFault(c) ==
  /\ IsOpen(c)
  /\ ~SendThrows(c)
  /\ ws' = [ws EXCEPT ![c].sendThrows = TRUE]
  /\ last' = Step("fault", c, NoEvent)
  /\ sent' = <<>>
  /\ UNCHANGED <<channels, messagesCollection, statusUpdatesCollection, tasks,
                 interval, nev, nfail, fresh, missed>>

\* ---------------------------------------------------------------- shutdown
\* ServerClose that leaves the timer armed
ServerCloseLeaky ==
  /\ interval
  /\ last.op # "serverClose"
  /\ last' = Step("serverClose", 0, NoEvent)
  /\ sent' = <<>>
  /\ UNCHANGED <<ws, channels, messagesCollection, statusUpdatesCollection, tasks,
                 interval, nev, nfail, fresh, missed>>

\* wss.on('close'): clearInterval(interval)
ServerClose ==
  /\ interval
  /\ interval' = FALSE
  /\ last' = Step("serverClose", 0, NoEvent)
  /\ sent' = <<>>
  /\ UNCHANGED <<ws, channels, messagesCollection, statusUpdatesCollection, tasks,
                 nev, nfail, fresh, missed>>

\* ---------------------------------------------------------------- behaviour
\* every storage call in flight may complete, every suspended handler may resume
Storage ==
  \/ \E i \in 1..(MaxTasks + NConn), ok \in BOOLEAN : StorageReturn(i, ok)
  \/ \E i \in 1..(MaxTasks + NConn) : Continue(i)

\* the message router: identity, join and chat events on accepted connections
RouterAuths == {d \in AuthEvents : Truthy(d.empId) \/ TruthyNum(d.userId)}
RouterJoins == {d \in JoinEvents : Truthy(d.channelId) /\ Truthy(d.username)}
RouterChats ==
  {d \in ChatEvents : /\ d.channelId # "C2"
                      /\ (d.type = "attachment") = (Len(d.attachments) > 0)
                      /\ Truthy(d.channelId) \/ d.type = "message"}

Next ==
  \/ \E c \in 1..NRouter : Connect(c)
  \/ \E c \in Conns : Close(c)
  \/ \E c \in Conns, data \in RouterAuths : Auth(c, data)
  \/ \E c \in Conns, data \in RouterJoins : Handlers < MaxTasks /\ Join(c, data)
  \/ \E c \in Conns, data \in RouterChats : Handlers < MaxTasks /\ Message(c, data)
  \/ Storage

Spec == Init /\ [][Next]_vars

\* the liveness monitor: accepts, identities, pongs, sweeps and closes
NextLiveness ==
  \/ \E c \in Conns : Connect(c)
  \/ \E c \in Conns : Pong(c)
  \/ heartbeat
  \/ ServerClose
  \/ \E c \in Conns : Close(c)
  \/ \E c \in Conns, data \in AuthEvents : Auth(c, data)

SpecLiveness == Init /\ [][NextLiveness]_vars

\* the call relay over the connection registry
NextRelay ==
  \/ \E c \in Conns : Connect(c)
  \/ \E c \in Conns : Close(c)
  \/ heartbeat
  \/ \E c \in Conns, data \in AuthEvents : Auth(c, data)
  \/ \E c \in Conns, data \in CallInvitationEvents : CallInvitation(c, data)
  \/ \E c \in Conns, data \in CallInvitationResponseEvents :
       CallInvitationResponse(c, data)

SpecRelay == Init /\ [][NextRelay]_vars

\* the stateless events over the registry and the channel directory
SignalAuths == {d \in AuthEvents : Truthy(d.empId) \/ TruthyNum(d.userId)}
SignalJoins == {d \in JoinEvents : d.channelId # "C2" /\ d.patientId = Undef
                                   /\ Truthy(d.username)}

SignalInvitations ==
  {d \in CallInvitationEvents : /\ Truthy(d.channelId) /\ d.targetUserId = "e1"
                                /\ ~Truthy(d.inviterId) /\ ~Truthy(d.inviterName)}
SignalResponses ==
  {d \in CallInvitationResponseEvents : /\ d.inviterId = "e1" /\ d.response = "accept"
                                        /\ ~Truthy(d.responderName)}

NextSignal ==
  \/ \E c \in 1..NRouter : Connect(c)
  \/ \E c \in Conns : Close(c)
  \/ \E c \in Conns, data \in SignalAuths : Auth(c, data)
  \/ \E c \in Conns, data \in SignalJoins : Handlers < MaxTasks /\ Join(c, data)
  \/ \E c \in Conns, data \in CallSignalEvents : CallSignal(c, data)
  \/ \E c \in Conns, data \in UserStatusEvents : UserStatus(c, data)
  \/ \E c \in Conns, data \in SignalInvitations : CallInvitation(c, data)
  \/ \E c \in Conns, data \in SignalResponses : CallInvitationResponse(c, data)
  \/ \E c \in Conns : Malformed(c)
  \/ \E c \in Conns : Ping(c)
  \/ Storage

SpecSignal == Init /\ [][NextSignal]_vars

\* status updates over the registry and the channel directory
StatusJoins == {d \in JoinEvents : Truthy(d.channelId) /\ d.patientId = Undef
                                   /\ Truthy(d.username)}

NextStatus ==
  \/ \E c \in 1..NRouter : Connect(c)
  \/ \E c \in Conns : Close(c)
  \/ \E c \in Conns, data \in SignalAuths : Auth(c, data)
  \/ \E c \in Conns, data \in StatusJoins : Handlers < MaxTasks /\ Join(c, data)
  \/ \E c \in Conns, data \in StatusUpdateEvents :
       Handlers < MaxTasks /\ StatusUpdate(c, data)
  \/ Storage

SpecStatus == Init /\ [][NextStatus]_vars

\* the fan-outs when sends may fail
FaultAuths == {d \in AuthEvents : Truthy(d.empId) /\ Truthy(d.username)}
FaultJoins == {d \in JoinEvents : d.channelId = "C1" /\ d.patientId = Undef
                                  /\ Truthy(d.username)}
FaultSignals == {d \in CallSignalEvents : Truthy(d.channelId) /\ Len(d.targetUsers) < 2}
FaultStatuses == {d \in UserStatusEvents : d.status = "online" /\ ~d.inCall}

NextFaults ==
  \/ \E c \in 1..NRouter : Connect(c)
  \/ \E c \in Conns : Close(c)
  \/ \E c \in Conns : SendFault(c)
  \/ \E c \in Conns, data \in FaultAuths : Auth(c, data)
  \/ \E c \in Conns, data \in FaultJoins : Handlers < MaxTasks /\ Join(c, data)
  \/ \E c \in Conns, data \in FaultSignals : CallSignal(c, data)
  \/ \E c \in Conns, data \in FaultStatuses : UserStatus(c, data)
  \/ Storage

SpecFaults == Init /\ [][NextFaults]_vars

\* chat events of every shape in one channel
NextChat ==
  \/ \E c \in 1..NRouter : Connect(c)
  \/ \E c \in Conns : Close(c)
  \/ \E c \in Conns, data \in FaultAuths : Auth(c, data)
  \/ \E c \in Conns, data \in FaultJoins : Handlers < MaxTasks /\ Join(c, data)
  \/ \E c \in Conns, data \in ClassifiedChats : Handlers < MaxTasks /\ Message(c, data)
  \/ Storage

SpecChat == Init /\ [][NextChat]_vars

\* the whole server: every kind of event, the sweep and the shutdown, one payload each
ServerChats == {d \in ClassifiedChats : d.type = "message" /\ d.attachments = <<>>}
ServerStatusUpdates == {d \in StatusUpdateEvents : d.patientId = "P1"}
ServerSignals == {d \in CallSignalEvents : Truthy(d.channelId) /\ ~d.hasTargetUsers}

NextServer ==
  \/ \E c \in 1..NRouter : Connect(c)
  \/ \E c \in Conns : Close(c)
  \/ \E c \in Conns : Pong(c)
  \/ heartbeat
  \/ ServerClose
  \/ \E c \in Conns, data \in FaultAuths : Auth(c, data)
  \/ \E c \in Conns, data \in FaultJoins : Handlers < MaxTasks /\ Join(c, data)
  \/ \E c \in Conns, data \in ServerChats : Handlers < MaxTasks /\ Message(c, data)
  \/ \E c \in Conns, data \in ServerStatusUpdates :
       Handlers < MaxTasks /\ StatusUpdate(c, data)
  \/ \E c \in Conns, data \in ServerSignals : CallSignal(c, data)
  \/ \E c \in Conns, data \in FaultStatuses : UserStatus(c, data)
  \/ Storage

SpecServer == Init /\ [][NextServer]_vars

\* handlers that race: two of them suspended at their storage calls at once, and four
\* inbound events (an identity event, a join and two chat events fit)
RaceContents == {<<"hello">>, <<"again">>}
RaceAuths == {AuthEvent("e1", "Dr. Smith", 0)}
RaceJoins == {d \in JoinEvents : d.channelId = "C1" /\ d.patientId = Undef
                                  /\ Truthy(d.username)}
RaceChats ==
  {[NoEvent EXCEPT !.type = "message", !.channelId = "C1", !.content = x] :
     x \in RaceContents}

InitRace ==
  /\ ws = [c \in Conns |-> NewSocket]
  /\ channels = <<>>
  /\ messagesCollection = <<>>
  /\ statusUpdatesCollection = <<>>
  /\ tasks = <<>>
  /\ sent = <<>>
  /\ last = Step("init", 0, NoEvent)
  /\ interval = TRUE
  /\ nev = MaxEvents - MaxRaceEvents
  /\ nfail = 0
  /\ fresh = [c \in Conns |-> FALSE]
  /\ missed = [c \in Conns |-> 0]

NextRace ==
  \/ \E c \in 1..NRouter : Connect(c)
  \/ \E c \in Conns, data \in RaceAuths : Auth(c, data)
  \/ \E c \in Conns, data \in RaceJoins : Handlers < MaxConcurrent /\ Join(c, data)
  \/ \E c \in Conns, data \in RaceChats : Handlers < MaxConcurrent /\ Message(c, data)
  \/ \E i \in 1..MaxConcurrent : StorageReturn(i, TRUE)
  \/ \E i \in 1..MaxConcurrent : Continue(i)

SpecRace == InitRace /\ [][NextRace]_vars

\* ------------------------------------------------------------------ claims
\* the sockets in a member list
Range(s) == {s[i] : i \in 1..Len(s)}

\* the frames a sequence of sends delivers to connection c
FramesTo(c, out) ==
  LET mine == SelectSeq(out, LAMBDA d : d.to = c)
  IN [i \in 1..Len(mine) |-> mine[i].f]

\* the close handler of c runs in this step
Closes(c) == c \in Clients /\ ws'[c].readyState = "CLOSED"

\* C1: once a connection's close handler has run, the connection appears in no
\* channel's member list.
C1_DisconnectCleanup ==
  \A c \in Conns :
    ws[c].readyState = "CLOSED" => \A k \in DOMAIN channels : c \notin Range(channels[k])

\* a connection was accepted, joined a channel with no username bound, and closed
C1_Case ==
  \E c \in Conns :
    /\ ws[c].readyState = "CLOSED"
    /\ ~Truthy(ws[c].username)
    /\ \E k \in DOMAIN channels : c \in Range(channels[k])

\* C2: a connection that is open after a sweep has seen at most that one sweep since
\* its accept or its last pong: the second sweep without a pong terminates it.
C2_EvictedBySecondSweep == \A c \in Conns : IsOpen(c) => missed[c] <= 1

\* a sweep terminated a connection that had let two sweeps pass without a pong
C2_Evicted == \E c \in Conns : ws[c].readyState = "CLOSING" /\ missed[c] = 2

\* C3: a sweep terminates a connection only if its liveness flag is false at sweep
\* time, so never one accepted, or one that sent a pong, since the previous sweep.
C3_NoFalseEviction ==
  [][\A c \in Conns :
       (IsOpen(c) /\ ws'[c].readyState = "CLOSING")
         => (ws[c].isAlive = FALSE /\ ~fresh[c])]_vars

\* a sweep terminated one connection and pinged another, which had answered
C3_Spared ==
  /\ last.op = "heartbeat"
  /\ \E c, d \in Conns :
       /\ ws[c].readyState = "CLOSING"
       /\ IsOpen(d) /\ d < c /\ ~ws[d].isAlive /\ missed[d] = 1

\* the offline presence frames of a step that reach connection d
OfflineTo(d, out) ==
  SelectSeq(FramesTo(d, out), LAMBDA f : f.type = "userStatus" /\ f.status = "offline")

\* C4 as stated: the close of a connection the sweep terminated, whether or not an
\* identity was bound, sends an offline presence frame to every remaining open
\* connection.
C4_OfflineForAll ==
  [][\A c \in Conns :
       (Closes(c) /\ ws[c].readyState = "CLOSING")
         => \A d \in Conns \ {c} : IsOpen(d) => Len(OfflineTo(d, sent')) >= 1]_vars

\* C4 amended: the close of a terminated connection with a bound identity (empId or
\* legacy id) sends exactly one offline presence frame, naming that identity, to every
\* remaining open connection and to no other; with no identity bound it sends none.
C4_OfflineForIdentified ==
  [][\A c \in Conns :
       (Closes(c) /\ ws[c].readyState = "CLOSING")
         => \A d \in Conns :
              LET off == OfflineTo(d, sent')
              IN IF d # c /\ IsOpen(d) /\ (Truthy(ws[c].empId) \/ ws[c].userId # 0)
                 THEN /\ Len(off) = 1
                      /\ off[1].id = (IF Truthy(ws[c].empId) THEN ws[c].empId
                                      ELSE NumToString(ws[c].userId))
                      /\ ~off[1].inCall
                 ELSE Len(off) = 0]_vars

\* a terminated connection bound to a legacy id only has closed and the remaining
\* open connection was told
C4_Told ==
  /\ last.op = "close"
  /\ ~Truthy(ws[last.conn].empId) /\ ws[last.conn].userId # 0
  /\ missed[last.conn] = 2
  /\ \E d \in Conns : IsOpen(d) /\ Len(OfflineTo(d, sent)) = 1

\* C5: an identity event carrying an empId puts exactly one userStatus frame with that
\* empId and username, status online and inCall false on every open connection, the
\* sender included and members of no channel included, and none on any other.
C5_OnlineToEveryone ==
  (last.op = "auth" /\ Truthy(last.data.empId))
    => \A d \in Conns :
         LET fs == FramesTo(d, sent)
         IN IF IsOpen(d)
            THEN /\ Len(fs) = 1
                 /\ fs[1].type = "userStatus"
                 /\ fs[1].id = last.data.empId
                 /\ fs[1].name = last.data.username
                 /\ fs[1].status = "online"
                 /\ fs[1].inCall = FALSE
            ELSE Len(fs) = 0

\* an identity event of a connection in no channel reached it and a channel member
C5_Announced ==
  /\ last.op = "auth" /\ Truthy(last.data.empId)
  /\ \A k \in DOMAIN channels : last.conn \notin Range(channels[k])
  /\ Len(FramesTo(last.conn, sent)) = 1
  /\ \E d \in Conns \ {last.conn} :
       /\ IsOpen(d) /\ ~Truthy(ws[d].empId)
       /\ \E k \in DOMAIN channels : d \in Range(channels[k])
       /\ Len(FramesTo(d, sent)) = 1

\* the place of a frame type in the order history, statusUpdates, system
JoinRank(type) ==
  CASE type = "history" -> 1 [] type = "statusUpdates" -> 2 [] type = "system" -> 3
    [] OTHER -> 0

Count(s, x) == Cardinality({i \in 1..Len(s) : s[i] = x})

\* C6: what a join handler sends to the joining connection comes in the order history
\* batch, statusUpdates batch, join announcement: one history batch first, at most one
\* statusUpdates batch (only for a patient that resolves, and always for one when no
\* storage call failed), and once the announcement has been broadcast the open joiner
\* has received it last.
C6_JoinOrder ==
  \A i \in 1..Len(tasks) :
    LET t == tasks[i]
    IN t.kind = "join" =>
         /\ \A j, k \in 1..Len(t.got) :
              j < k => (JoinRank(t.got[j]) >= 1 /\ JoinRank(t.got[j]) <= JoinRank(t.got[k]))
         /\ Count(t.got, "history") <= 1
         /\ Count(t.got, "statusUpdates") <= 1
         /\ Count(t.got, "statusUpdates") = 1 => t.ev.patientId \in Patients
         /\ (t.pc = "addMessageToChannel" /\ IsOpen(t.conn)) =>
              /\ t.got[1] = "history"
              /\ t.got[Len(t.got)] = "system"
              /\ (t.ev.patientId \in Patients /\ nfail = 0) => t.got[2] = "statusUpdates"

\* a join for a patient that resolves has sent the three frames to the joiner
C6_AllThree ==
  \E i \in 1..Len(tasks) :
    tasks[i].kind = "join" /\ tasks[i].got = <<"history", "statusUpdates", "system">>

\* ws.empId || ws.userId.toString() of the identity a handler started with
BoundIdentity(who) == IF Truthy(who.empId) THEN who.empId ELSE NumToString(who.userId)

\* the chat handler of task i resumes after its storage call in this step
ChatResumes(i) ==
  /\ i \in 1..Len(tasks)
  /\ tasks[i].kind = "chat" /\ tasks[i].ready
  /\ last'.op = "resume" /\ last'.conn = tasks[i].conn
  /\ tasks' = RemoveAt(tasks, i)

IsChatFrame(f) == f.type \in {"message", "attachment"}

\* C7: when a chat event for channel C from an identified connection has been
\* persisted, every open member of C receives it as a frame for channel C with the
\* sender's bound identity as senderId and the content unchanged (type message for a
\* message event without attachments), and no connection that is not an open member
\* of C receives any frame.
C7_ChatToMembersOnly ==
  [][\A i \in 1..(MaxTasks + NConn) :
       (ChatResumes(i) /\ tasks[i].ok)
         => \A d \in Conns :
              LET t == tasks[i]
                  fs == FramesTo(d, sent')
              IN IF IsOpen(d) /\ d \in Range(Members(t.ev.channelId))
                 THEN /\ Len(fs) >= 1
                      /\ \A k \in 1..Len(fs) :
                           /\ IsChatFrame(fs[k])
                           /\ (t.ev.type = "message" /\ t.ev.attachments = <<>>)
                                => fs[k].type = "message"
                           /\ fs[k].channelId = t.ev.channelId
                           /\ fs[k].id = BoundIdentity(t.who)
                           /\ fs[k].content = t.ev.content
                 ELSE Len(fs) = 0]_vars

\* a persisted message of a sender outside the channel reached the channel's member
\* and not the sender
C7_Delivered ==
  /\ last.op = "resume" /\ last.data.type = "message"
  /\ \E m \in Range(messagesCollection) : m.type = "text"
  /\ Len(FramesTo(last.conn, sent)) = 0
  /\ \E d \in Conns \ {last.conn} :
       /\ d \in Range(Members(last.data.channelId))
       /\ Len(FramesTo(d, sent)) = 1 /\ FramesTo(d, sent)[1].type = "message"

\* C8: a message or attachment event from a connection bound to neither an empId nor
\* a legacy id, or carrying no channelId, sends no frame, starts no storage call and
\* leaves the registry, the channel directory and the collections unchanged.
C8_RejectedChatIsNoOp ==
  [][\A c \in Conns :
       (/\ last'.op = "chat" /\ last'.conn = c
        /\ \/ ~Truthy(ws[c].empId) /\ ws[c].userId = 0
           \/ ~Truthy(last'.data.channelId))
         => /\ sent' = <<>>
            /\ UNCHANGED <<ws, channels, messagesCollection, statusUpdatesCollection,
                           tasks>>]_vars

\* an unidentified connection sent a chat event to a channel that has an open member
C8_Ignored ==
  /\ last.op = "chat" /\ Truthy(last.data.channelId)
  /\ ~Truthy(ws[last.conn].empId) /\ ws[last.conn].userId = 0
  /\ \E d \in Range(Members(last.data.channelId)) : IsOpen(d)
  /\ sent = <<>> /\ tasks = <<>> /\ messagesCollection = <<>>

\* C9: a chat frame goes on the wire only in the step in which a chat handler resumes
\* from its completed storage call, and the resuming handler delivers it to every open
\* member of the channel whether the call stored the message or failed.
C9_PersistThenBroadcast ==
  [][/\ (\E k \in 1..Len(sent') : IsChatFrame(sent'[k].f))
          => \E i \in 1..(MaxTasks + NConn) : ChatResumes(i)
     /\ \A i \in 1..(MaxTasks + NConn) :
          ChatResumes(i)
            => \A d \in Range(Members(tasks[i].ev.channelId)) :
                 IsOpen(d) => \E k \in 1..Len(sent') :
                                sent'[k].to = d /\ IsChatFrame(sent'[k].f)]_vars

\* a chat event whose storage call failed was broadcast to the channel's member
C9_BroadcastAfterFailure ==
  /\ last.op = "resume" /\ last.data.type \in {"message", "attachment"}
  /\ nfail = 1
  /\ \A m \in Range(messagesCollection) : m.type = "system"
  /\ \E k \in 1..Len(sent) : IsChatFrame(sent[k].f)

\* the open connections a call relay may pick for an identity
IdentityHolders(id) ==
  {d \in Conns :
     /\ IsOpen(d)
     /\ \/ ws[d].empId = id /\ Truthy(ws[d].empId)
        \/ ws[d].userId # 0 /\ NumToString(ws[d].userId) = id}

\* C10: a callInvitation (with its channelId) whose targetUserId is the identity of an
\* open connection puts exactly one callInvitation frame on the wire, to one open
\* connection bound to that identity; when no open connection is bound to it, no frame
\* is sent to anyone.
C10_InvitationToOneTarget ==
  (/\ last.op = "callInvitation"
   /\ Truthy(last.data.channelId) /\ Truthy(last.data.targetUserId))
    => IF IdentityHolders(last.data.targetUserId) = {}
       THEN sent = <<>>
       ELSE /\ Len(sent) = 1
            /\ sent[1].to \in IdentityHolders(last.data.targetUserId)
            /\ sent[1].f.type = "callInvitation"
            /\ sent[1].f.channelId = last.data.channelId

\* two open connections share the invited identity and one frame went out
C10_SharedIdentity ==
  /\ last.op = "callInvitation"
  /\ Cardinality(IdentityHolders(last.data.targetUserId) \ {last.conn}) = 2
  /\ Len(sent) = 1

\* C11: a callInvitationResponse puts exactly one callInvitationResponse frame on the
\* wire, to one open connection bound to inviterId, and none to any other connection;
\* when no open connection is bound to inviterId, or inviterId is missing, no frame
\* is sent to anyone, the responder included.
C11_ResponseToInviterOnly ==
  last.op = "callInvitationResponse"
    => IF ~Truthy(last.data.inviterId) \/ IdentityHolders(last.data.inviterId) = {}
       THEN sent = <<>>
       ELSE /\ Len(sent) = 1
            /\ sent[1].to \in IdentityHolders(last.data.inviterId)
            /\ sent[1].f.type = "callInvitationResponse"
            /\ sent[1].f.detail = last.data.response

\* a response reached the inviter, bound to a legacy id, and not the responder
C11_Answered ==
  /\ last.op = "callInvitationResponse"
  /\ Len(sent) = 1 /\ sent[1].to # last.conn
  /\ ~Truthy(ws[sent[1].to].empId)
  /\ last.data.response = "decline"

\* the connections a step's frames went to
Recipients(out) == {out[k].to : k \in 1..Len(out)}

\* the open connections listed in a channel's member list
OpenMembers(channelId) == {d \in Range(Members(channelId)) : IsOpen(d)}

\* the identity a member is known by: its empId, else its legacy id as a string
ListedIn(d, targetUsers) ==
  \/ Truthy(ws[d].empId) /\ ws[d].empId \in Range(targetUsers)
  \/ ~Truthy(ws[d].empId) /\ ws[d].userId # 0
       /\ NumToString(ws[d].userId) \in Range(targetUsers)

\* C12 as stated, for a signal an identified connection sends to a named channel: a
\* callSignal that carries a targetUsers list of any length reaches only open members
\* of the channel whose identity is in the list; one that carries no list reaches
\* every open member; no connection outside the channel receives it.
C12_TargetedByAnyList ==
  (/\ last.op = "callSignal"
   /\ Truthy(ws[last.conn].empId) \/ ws[last.conn].userId # 0
   /\ Truthy(last.data.channelId))
    => /\ Recipients(sent) \subseteq OpenMembers(last.data.channelId)
       /\ last.data.hasTargetUsers
            => \A d \in Recipients(sent) : ListedIn(d, last.data.targetUsers)
       /\ ~last.data.hasTargetUsers
            => Recipients(sent) = OpenMembers(last.data.channelId)

\* C12 amended: a callSignal from a connection with a bound identity that names a
\* channel reaches, when it carries a non-empty targetUsers list, exactly the open
\* members of that channel whose identity is in the list, and otherwise (no list, or
\* an empty one) exactly the open members of the channel; every frame is a callSignal
\* naming the sender's bound identity; from an unidentified connection or without a
\* channelId nothing is sent.
C12_TargetedByNonEmptyList ==
  last.op = "callSignal"
    => IF (Truthy(ws[last.conn].empId) \/ ws[last.conn].userId # 0)
          /\ Truthy(last.data.channelId)
       THEN /\ Recipients(sent) =
                 IF last.data.hasTargetUsers /\ last.data.targetUsers # <<>>
                 THEN {d \in OpenMembers(last.data.channelId) :
                         ListedIn(d, last.data.targetUsers)}
                 ELSE OpenMembers(last.data.channelId)
            /\ \A k \in 1..Len(sent) :
                 /\ sent[k].f.type = "callSignal"
                 /\ sent[k].f.channelId = last.data.channelId
                 /\ sent[k].f.id = (IF Truthy(ws[last.conn].empId) THEN ws[last.conn].empId
                                    ELSE NumToString(ws[last.conn].userId))
       ELSE sent = <<>>

\* a targeted signal reached the listed member of the channel, bound to a legacy id,
\* and passed over an open connection outside the channel
C12_Targeted ==
  /\ last.op = "callSignal"
  /\ last.data.hasTargetUsers /\ Len(last.data.targetUsers) = 2
  /\ Len(sent) = 1 /\ ~Truthy(ws[sent[1].to].empId)
  /\ \E d \in Conns : IsOpen(d) /\ d \notin Range(Members(last.data.channelId))

\* C13: every frame a call relay event of a connection with a bound empId puts on
\* the wire names the actor (inviterId, responderId) by that empId, and by the bound
\* username (inviterName, responderName) when one is bound, never by a value of the
\* event's payload.
C13_BoundIdentityAuthoritative ==
  (/\ last.op \in {"callInvitation", "callInvitationResponse"}
   /\ Truthy(ws[last.conn].empId))
    => \A k \in 1..Len(sent) :
         /\ sent[k].f.id = ws[last.conn].empId
         /\ Truthy(ws[last.conn].username) => sent[k].f.name = ws[last.conn].username

\* C14: a join event without a channelId creates no channel entry, leaves the
\* connection's subscription and the member lists unchanged, starts no storage call,
\* persists nothing and sends no frame.
C14_JoinWithoutChannelIsNoOp ==
  [][(last'.op = "join" /\ ~Truthy(last'.data.channelId))
       => /\ sent' = <<>>
          /\ UNCHANGED <<ws, channels, messagesCollection, statusUpdatesCollection,
                         tasks>>]_vars

\* the frames of a channel broadcast for channel k that a step delivers to d
ChannelFrames(d, k, out) ==
  SelectSeq(FramesTo(d, out),
            LAMBDA f : f.type \in {"system", "message", "attachment"} /\ f.channelId = k)

\* C15: every join event of a connection for a channel adds one more entry for the
\* connection to the channel's member list, whatever it already lists, and every
\* channel broadcast is delivered to an open connection once per entry it has in the
\* member list.
C15_JoinNotIdempotent ==
  [][/\ \A c \in Conns :
          (last'.op = "join" /\ last'.conn = c)
            => Count(channels'[last'.data.channelId], c)
                 = Count(Members(last'.data.channelId), c) + 1
     /\ \A k \in DOMAIN channels' :
          (\E d \in Conns : Len(ChannelFrames(d, k, sent')) > 0)
            => \A d \in Conns :
                 Len(ChannelFrames(d, k, sent'))
                   = IF ws'[d].readyState = "OPEN" THEN Count(channels'[k], d) ELSE 0]_vars

\* a connection joined the same channel twice and got the announcement of its second
\* join twice
C15_Twice ==
  /\ last.op = "resume" /\ last.data.type = "join"
  /\ IsOpen(last.conn)
  /\ Count(Members(last.data.channelId), last.conn) = 2
  /\ Len(ChannelFrames(last.conn, last.data.channelId, sent)) = 2

\* C16: the channel directory starts empty, a channel id enters it only in the step
\* of a join event that names it, and a channel id that is in the directory stays in
\* it in every later state, also when its member list is empty.
C16_LazyAndNeverDestroyed ==
  /\ DOMAIN channels = {}
  /\ [][/\ DOMAIN channels \subseteq DOMAIN channels'
        /\ DOMAIN channels' # DOMAIN channels
             => /\ last'.op = "join"
                /\ DOMAIN channels' = DOMAIN channels \cup {last'.data.channelId}]_vars

\* the last member of a channel closed and the channel is still in the directory
C16_EmptyChannelKept ==
  /\ last.op = "close"
  /\ \E k \in DOMAIN channels : channels[k] = <<>>

\* the statusUpdate handler of task i resumes from its channel lookup in this step
StatusResumes(i) ==
  /\ i \in 1..Len(tasks)
  /\ tasks[i].kind = "status" /\ tasks[i].pc = "getChannelByPatientId" /\ tasks[i].ready
  /\ last'.op = "resume" /\ last'.conn = tasks[i].conn
  /\ tasks' = RemoveAt(tasks, i)

\* C17: a statusUpdate event from a connection with no bound identity, or without a
\* patientId, persists nothing, starts no storage call and sends nothing; an accepted
\* one sends nothing before its handler resumes from the channel lookup, which comes
\* after the update was handed to the collaborator (and stored, unless a storage call
\* failed); then exactly the open members of the channel the collaborator associates
\* with the patient receive a statusUpdate frame for the patient, and nobody receives
\* anything when no channel is found.
C17_StatusUpdateRouting ==
  [][/\ \A c \in Conns :
          (last'.op = "statusUpdate" /\ last'.conn = c)
            => /\ sent' = <<>>
               /\ UNCHANGED <<ws, channels, messagesCollection, statusUpdatesCollection>>
               /\ IF (~Truthy(ws[c].empId) /\ ws[c].userId = 0)
                     \/ ~Truthy(last'.data.patientId)
                  THEN UNCHANGED tasks
                  ELSE /\ Len(tasks') = Len(tasks) + 1
                       /\ tasks'[Len(tasks')].pc = "addStatusUpdate"
                       /\ tasks'[Len(tasks')].arg.patientId = last'.data.patientId
     /\ (\E k \in 1..Len(sent') : sent'[k].f.type = "statusUpdate")
          => \E i \in 1..(MaxTasks + NConn) : StatusResumes(i)
     /\ \A i \in 1..(MaxTasks + NConn) :
          StatusResumes(i)
            => LET pid == tasks[i].ev.patientId
               IN /\ nfail = 0
                       => /\ \E u \in Range(statusUpdatesCollection) :
                               u.patientId = pid /\ u.status = tasks[i].ev.status
                          /\ tasks[i].ok = (pid = "P1")
                  /\ Recipients(sent') = IF tasks[i].ok /\ pid = "P1"
                                         THEN {d \in Range(Members("C1")) : IsOpen(d)}
                                         ELSE {}
                  /\ \A k \in 1..Len(sent') :
                       sent'[k].f.type = "statusUpdate" /\ sent'[k].f.detail = pid]_vars

\* a stored update of a connection outside the patient's channel reached the
\* channel's member and not its sender
C17_Broadcast ==
  /\ last.op = "resume" /\ last.data.type = "statusUpdate"
  /\ Len(statusUpdatesCollection) = 1
  /\ Len(sent) = 1 /\ sent[1].to # last.conn /\ IsOpen(last.conn)
  /\ sent[1].f.type = "statusUpdate"

\* C18: a userStatus event from a connection with a bound identity puts exactly one
\* userStatus frame on every open connection, members of a channel or not, carrying
\* the sender's bound identity and the reported status and inCall, with lastSeen set
\* exactly when the status is offline, and none on any other connection; from an
\* unidentified connection it puts no frame on the wire.
C18_UserStatusToEveryone ==
  last.op = "userStatus"
    => IF Truthy(ws[last.conn].empId) \/ ws[last.conn].userId # 0
       THEN \A d \in Conns :
              LET fs == FramesTo(d, sent)
              IN IF IsOpen(d)
                 THEN /\ Len(fs) = 1
                      /\ fs[1].type = "userStatus"
                      /\ fs[1].id = (IF Truthy(ws[last.conn].empId) THEN ws[last.conn].empId
                                     ELSE NumToString(ws[last.conn].userId))
                      /\ Truthy(ws[last.conn].username) => fs[1].name = ws[last.conn].username
                      /\ fs[1].status = last.data.status
                      /\ fs[1].inCall = last.data.inCall
                      /\ fs[1].lastSeen = (last.data.status = "offline")
                 ELSE Len(fs) = 0
       ELSE sent = <<>>

\* an offline status of a connection in no channel reached a channel member that
\* has no identity
C18_Reported ==
  /\ last.op = "userStatus" /\ last.data.status = "offline" /\ last.data.inCall
  /\ \A k \in DOMAIN channels : last.conn \notin Range(channels[k])
  /\ \E d \in Conns \ {last.conn} :
       /\ IsOpen(d) /\ ~Truthy(ws[d].empId) /\ ws[d].userId = 0
       /\ d \in Range(Members("C1"))
       /\ Len(FramesTo(d, sent)) = 1 /\ FramesTo(d, sent)[1].lastSeen

\* C19: a frame that does not parse leaves its connection open and registered, puts
\* no frame on the wire and leaves the registry, the channel directory, the
\* collections and the suspended handlers unchanged; an identity event that follows
\* it on the same connection binds the identity and is announced to every open
\* connection, and a test ping that follows it is answered.
C19_MalformedFrameIgnored ==
  [][/\ last'.op = "malformed"
          => /\ sent' = <<>>
             /\ ws'[last'.conn].readyState = "OPEN"
             /\ last'.conn \in {c \in Conns : ws'[c].readyState \in {"OPEN", "CLOSING"}}
             /\ UNCHANGED <<ws, channels, messagesCollection, statusUpdatesCollection,
                            tasks>>
     /\ (last.op = "malformed" /\ last'.op = "auth" /\ last'.conn = last.conn)
          => /\ ws'[last.conn].empId = last'.data.empId
             /\ Truthy(last'.data.empId)
                  => \A d \in Conns : IsOpen(d) => Len(FramesTo(d, sent')) = 1
     /\ (last.op = "malformed" /\ last'.op = "ping" /\ last'.conn = last.conn)
          => /\ Len(sent') = 1 /\ sent'[1].to = last.conn
             /\ sent'[1].f.type = "pong"]_vars

\* an identified member of a channel sent a frame that does not parse and is still
\* open and a member
C19_StillServed ==
  /\ last.op = "malformed"
  /\ IsOpen(last.conn) /\ Truthy(ws[last.conn].empId)
  /\ last.conn \in Range(Members("C1"))
  /\ sent = <<>>

\* the connections a send can reach: open, and their own send does not fail
Reachable(d) == IsOpen(d) /\ ~ws[d].sendThrows

\* C20: in every fan-out a recipient whose own send does not fail receives its frame,
\* whatever send fails on another recipient: the presence broadcasts of an identity
\* event, of a userStatus event and of a close reach every other open connection,
\* and a callSignal reaches every member of the channel it is meant for.
C20_FanOutIsolation ==
  /\ (\/ last.op = "auth" /\ Truthy(last.data.empId)
      \/ last.op = "userStatus"
           /\ (Truthy(ws[last.conn].empId) \/ ws[last.conn].userId # 0))
       => \A d \in Conns : Reachable(d) => Len(FramesTo(d, sent)) = 1
  /\ (last.op = "close" /\ (Truthy(ws[last.conn].empId) \/ ws[last.conn].userId # 0))
       => \A d \in Conns : Reachable(d) => Len(OfflineTo(d, sent)) = 1
  /\ (/\ last.op = "callSignal"
      /\ Truthy(ws[last.conn].empId) \/ ws[last.conn].userId # 0)
       => \A d \in OpenMembers(last.data.channelId) :
            (/\ Reachable(d)
             /\ (last.data.hasTargetUsers /\ last.data.targetUsers # <<>>)
                  => ListedIn(d, last.data.targetUsers))
              => d \in Recipients(sent)

\* C21: handling a callInvitation, a callInvitationResponse or a callSignal leaves
\* every connection's bound identity, subscription and liveness flag, every channel
\* member list, the persisted messages and status updates and the suspended handlers
\* unchanged.
C21_RelayHoldsNoState ==
  [][last'.op \in {"callInvitation", "callInvitationResponse", "callSignal"}
       => UNCHANGED <<ws, channels, messagesCollection, statusUpdatesCollection,
                      tasks, interval>>]_vars

\* a call signal for another channel than the sender's own was relayed with a join
\* record in the store
C21_Relayed ==
  /\ last.op = "callSignal" /\ Len(sent) = 1
  /\ ws[last.conn].channelId # last.data.channelId
  /\ Len(messagesCollection) = 1

\* the chat record a storage step appended in this step, for the event it belongs to
ChatStored ==
  /\ last'.op = "storage" /\ last'.data.type \in {"message", "attachment"}
  /\ Len(messagesCollection') = Len(messagesCollection) + 1

\* C22 as stated: a chat frame on the wire has type attachment exactly when its
\* normalized attachment sequence is non-empty and type message otherwise, and a chat
\* record in the store has type attachment exactly when its attachment sequence is
\* non-empty and type text otherwise, whatever type the inbound frame had.
C22_ClassifiedByAttachments ==
  [][/\ \A k \in 1..Len(sent') :
          IsChatFrame(sent'[k].f)
            => sent'[k].f.type = IF sent'[k].f.attachments # <<>> THEN "attachment"
                                 ELSE "message"
     /\ ChatStored
          => LET m == messagesCollection'[Len(messagesCollection')]
             IN m.type = IF m.attachments # <<>> THEN "attachment" ELSE "text"]_vars

\* C22 amended: a chat frame on the wire and its record in the store have type
\* attachment exactly when the inbound frame's type is attachment or its attachment
\* sequence is non-empty; otherwise the frame has type message and the record type
\* text.
C22_ClassifiedByTypeOrAttachments ==
  [][/\ \A i \in 1..(MaxTasks + NConn) :
          ChatResumes(i)
            => \A k \in 1..Len(sent') :
                 sent'[k].f.type =
                   IF tasks[i].ev.type = "attachment" \/ tasks[i].ev.attachments # <<>>
                   THEN "attachment" ELSE "message"
     /\ ChatStored
          => LET m == messagesCollection'[Len(messagesCollection')]
             IN m.type = IF last'.data.type = "attachment" \/ last'.data.attachments # <<>>
                         THEN "attachment" ELSE "text"]_vars

\* a message event with attachments was stored and reached the channel's member as
\* an attachment frame
C22_MessageWithAttachments ==
  /\ last.op = "resume" /\ last.data.type = "message"
  /\ Len(last.data.attachments) = 2
  /\ Len(sent) = 1 /\ sent[1].f.type = "attachment"
  /\ \E m \in Range(messagesCollection) : m.type = "attachment" /\ Len(m.attachments) = 2

\* out is the attachment sequence in normalized for the wire and the store
Normalized(in, out) ==
  /\ Len(out) = Len(in)
  /\ \A i \in 1..Len(in) :
       /\ out[i].type # Undef /\ out[i].type # ""
       /\ out[i].name # Undef /\ out[i].name # ""
       /\ out[i].type = IF in[i].type \in {Undef, ""} THEN "image" ELSE in[i].type
       /\ out[i].name = IF in[i].name \in {Undef, ""} THEN "file" ELSE in[i].name
       /\ out[i].url = in[i].url
       /\ out[i].size = in[i].size
       /\ out[i].mimeType = in[i].mimeType
       /\ out[i].thumbnailUrl = in[i].thumbnailUrl

\* C30: the attachments of every chat frame put on the wire and of every chat record
\* stored are the inbound attachments in the same order, each with a type (image when
\* the inbound one has none) and a name (file when the inbound one has none) and with
\* url, size, mimeType and thumbnailUrl unchanged.
C30_AttachmentsNormalized ==
  [][/\ \A i \in 1..(MaxTasks + NConn) :
          ChatResumes(i)
            => \A k \in 1..Len(sent') :
                 Normalized(tasks[i].ev.attachments, sent'[k].f.attachments)
     /\ ChatStored
          => Normalized(last'.data.attachments,
                        messagesCollection'[Len(messagesCollection')].attachments)]_vars

\* two attachments, the second with an empty type, were stored and delivered in order
\* with the second typed image
C30_Defaulted ==
  /\ last.op = "resume" /\ Len(last.data.attachments) = 2
  /\ last.data.attachments[2].type = ""
  /\ Len(sent) = 1
  /\ sent[1].f.attachments[1].type = "document"
  /\ sent[1].f.attachments[2].type = "image"
  /\ \E m \in Range(messagesCollection) :
       Len(m.attachments) = 2 /\ m.attachments[2].type = "image"

\* C24: the server close event cancels the sweep timer, and once the timer is
\* cancelled it stays cancelled, no sweep runs, and no connection goes from open to
\* terminated.
C24_NoSweepAfterShutdown ==
  [][/\ last'.op = "serverClose" => ~interval'
     /\ ~interval
          => /\ ~interval'
             /\ last'.op # "heartbeat"
             /\ \A c \in Conns : IsOpen(c) => ws'[c].readyState # "CLOSING"]_vars

\* after the shutdown a connection that left a ping unanswered is still open, and
\* events are still handled
C24_Unswept ==
  /\ ~interval /\ last.op = "auth"
  /\ \E c \in Conns : IsOpen(c) /\ ~ws[c].isAlive /\ missed[c] = 1

\* a is an initial segment of b
IsPrefix(a, b) == Len(a) <= Len(b) /\ \A i \in 1..Len(a) : a[i] = b[i]

\* C23: no step of the server removes or changes a stored Message or StatusUpdate:
\* after every step each collection still begins with all the records it held before,
\* in the same order and with the same contents.
C23_AppendOnly ==
  [][/\ IsPrefix(messagesCollection, messagesCollection')
     /\ IsPrefix(statusUpdatesCollection, statusUpdatesCollection')]_vars

\* a join message, a status update and a leave message are stored, the earlier
\* records still in place after the later writes
C23_Grown ==
  /\ Len(messagesCollection) = 2 /\ Len(statusUpdatesCollection) = 1
  /\ messagesCollection[1].type = "system" /\ messagesCollection[2].type = "system"
  /\ messagesCollection[1].content # messagesCollection[2].content
  /\ last.op = "storage"

\* a handler is suspended at a storage call that has not returned
Awaiting(i) == i \in 1..Len(tasks) /\ tasks[i].kind # "leave" /\ ~tasks[i].ready

\* C25: while the handler of one connection awaits a storage call that has not
\* returned, the sweep can run (as long as the timer is set), and every other open
\* connection's next event is handled: its identity event is handled and its presence
\* frame delivered, and its join event is handled and subscribes it.
C25_HandlersDoNotBlock ==
  \A i \in 1..(MaxTasks + NConn) :
    Awaiting(i)
      => /\ interval => ENABLED heartbeat
         /\ \A c \in Conns \ {tasks[i].conn} :
              IsOpen(c) /\ nev < MaxEvents
                => /\ \A d \in FaultAuths :
                        ENABLED (Auth(c, d) /\ \E k \in 1..Len(sent') : sent'[k].to = c)
                   /\ \A d \in FaultJoins :
                        ENABLED (Join(c, d) /\ c \in Range(channels'[d.channelId]))

\* the join handler of one connection is still at its first storage call, which has
\* not returned; since the join a sweep has terminated that connection, and another
\* connection's event has just been handled and delivered
C25_Overtaken ==
  /\ Awaiting(1) /\ tasks[1].kind = "join" /\ tasks[1].pc = "getChannelMessages"
  /\ ws[tasks[1].conn].readyState = "CLOSING"
  /\ last.op = "userStatus" /\ last.conn # tasks[1].conn
  /\ \E k \in 1..Len(sent) : sent[k].to = last.conn

\* the identity bound to a connection
Binding(s) == <<s.empId, s.userId, s.username>>

\* the step handles an identity event
AuthStep == last'.op = "auth" /\ nev' = nev + 1

\* C26: an identity event leaves the connection bound to exactly the empId, legacy id
\* and username of its payload, whatever was bound before (so a payload without empId
\* leaves no empId, and the same event a second time leaves the binding as it was);
\* and whenever the payload has an empId, the online presence frame for it is sent
\* again, on a repeated event as on the first, to every open connection (every one
\* that no failing send precedes).
C26_RebindOverwrites ==
  [][AuthStep
       => /\ Binding(ws'[last'.conn])
               = <<last'.data.empId, last'.data.userId, last'.data.username>>
          /\ (last.op = "auth" /\ last.conn = last'.conn /\ last.data = last'.data)
               => Binding(ws'[last'.conn]) = Binding(ws[last'.conn])
          /\ Truthy(last'.data.empId)
               => \A d \in Conns :
                    IsOpen(d) /\ (\A e \in 1..d : IsOpen(e) => ~SendThrows(e))
                      => \E k \in 1..Len(sent') :
                           /\ sent'[k].to = d
                           /\ sent'[k].f.type = "userStatus"
                           /\ sent'[k].f.status = "online"
                           /\ sent'[k].f.id = last'.data.empId]_vars

\* the only connection ever accepted joined while bound to e1 (its join message is
\* stored under that id) and has now been rebound by an identity event without empId:
\* it holds the legacy id and no empId
C26_Rebound ==
  /\ ws[2].readyState = "NONE" /\ IsOpen(1)
  /\ \E m \in Range(messagesCollection) : m.senderId = "e1"
  /\ last.op = "auth" /\ last.conn = 1 /\ ~Truthy(last.data.empId)
  /\ Binding(ws[1]) = <<Undef, LegacyId, "Dr. Smith">>

\* C27: after an identity event without an empId the connection holds the username
\* and legacy id of the payload and no empId, and no frame was sent to any connection.
C27_NoEmpIdNoPresence ==
  last.op = "auth" /\ ~Truthy(last.data.empId)
    => /\ sent = <<>>
       /\ ws[last.conn].username = last.data.username
       /\ ws[last.conn].userId = last.data.userId
       /\ ~Truthy(ws[last.conn].empId)

\* a connection has just bound a legacy id and a username without an empId while
\* another connection is open, and nothing was sent
C27_BoundSilently ==
  /\ last.op = "auth" /\ ~Truthy(last.data.empId)
  /\ ws[last.conn].userId = LegacyId /\ ws[last.conn].username = "Dr. Smith"
  /\ \E d \in Conns \ {last.conn} : IsOpen(d) /\ Truthy(ws[d].empId)
  /\ sent = <<>>

\* the identities a relay event can ask for
RelayIds == EmpIds \cup {NumToString(LegacyId), "0"}

\* the connections a lookup of id may select: open, and bound to id by empId or by
\* the decimal form of a legacy id
Selectable(id) ==
  {c \in Conns : /\ ws[c].readyState = "OPEN"
                 /\ \/ ws[c].empId \notin {Undef, ""} /\ ws[c].empId = id
                    \/ ws[c].userId # 0 /\ NumToString(ws[c].userId) = id}

\* C28: for every requested id the lookup finds a connection exactly when some open
\* connection is bound to the id by its empId or by its stringified legacy id, and the
\* connection found is such a connection; the frame an invitation or a response relays
\* goes to such a connection, never to one that is closed, terminated or unidentified.
C28_LookupMatchesOpenIdentified ==
  /\ \A id \in RelayIds :
       /\ findByIdentity(id) # 0 <=> Selectable(id) # {}
       /\ findByIdentity(id) # 0 => findByIdentity(id) \in Selectable(id)
  /\ last.op = "callInvitation"
       => \A k \in 1..Len(sent) : sent[k].to \in Selectable(last.data.targetUserId)
  /\ last.op = "callInvitationResponse"
       => \A k \in 1..Len(sent) : sent[k].to \in Selectable(last.data.inviterId)

\* an invitation to the legacy id 7 was relayed to the open connection bound to it
\* while a terminated connection bound to e1 and an unidentified open connection are
\* registered, and the lookup of e1 finds nobody
C28_Selected ==
  /\ last.op = "callInvitation" /\ last.data.targetUserId = NumToString(LegacyId)
  /\ Len(sent) = 1 /\ ws[sent[1].to].userId = LegacyId
  /\ \E c \in Conns : ws[c].readyState = "CLOSING" /\ ws[c].empId = "e1"
  /\ \E c \in Conns : IsOpen(c) /\ Unidentified(c)
  /\ findByIdentity("e1") = 0

\* the join handler of task i resumes from a history listing that failed
JoinResumesUnlisted(i) ==
  /\ i \in 1..Len(tasks)
  /\ tasks[i].kind = "join" /\ tasks[i].pc = "getChannelMessages"
  /\ tasks[i].ready /\ ~tasks[i].ok
  /\ last'.op = "resume" /\ last'.conn = tasks[i].conn
  /\ Len(tasks') = Len(tasks) /\ tasks'[i].pc = "getPatientById"

\* the write of the join message of task i fails in this step
JoinWriteFails(i) ==
  /\ i \in 1..Len(tasks)
  /\ tasks[i].kind = "join" /\ tasks[i].pc = "addMessageToChannel" /\ ~tasks[i].ready
  /\ last'.op = "storage" /\ nfail' = nfail + 1
  /\ Len(tasks') = Len(tasks) /\ tasks'[i].ready

\* the join handler of task i ends after a write that failed
JoinEndsUnsaved(i) ==
  /\ i \in 1..Len(tasks)
  /\ tasks[i].kind = "join" /\ tasks[i].pc = "addMessageToChannel"
  /\ tasks[i].ready /\ ~tasks[i].ok
  /\ last'.op = "resume" /\ tasks' = RemoveAt(tasks, i)

\* C29: when the history listing of a join fails, the joiner (if still open) is sent
\* exactly one frame, a history batch with no items, and the handler goes on to the
\* patient lookup; when the write of the join message fails, nothing is stored, the
\* joiner (if still open) has already received the join system frame and is still
\* listed in the channel, and the handler then ends sending nothing and leaving the
\* member lists as they are.
C29_JoinSwallowsStorageFailure ==
  [][\A i \in 1..(MaxTasks + NConn) :
       /\ JoinResumesUnlisted(i) /\ IsOpen(tasks[i].conn)
            => /\ Len(sent') = 1
               /\ sent'[1].to = tasks[i].conn
               /\ sent'[1].f.type = "history"
               /\ sent'[1].f.items = <<>>
       /\ JoinWriteFails(i) /\ IsOpen(tasks[i].conn)
            => /\ messagesCollection' = messagesCollection
               /\ Len(tasks[i].got) > 0
               /\ tasks[i].got[Len(tasks[i].got)] = "system"
               /\ tasks[i].conn \in Range(channels'[tasks[i].ev.channelId])
       /\ JoinEndsUnsaved(i)
            => /\ sent' = <<>>
               /\ channels' = channels
               /\ messagesCollection' = messagesCollection
               /\ IsOpen(tasks[i].conn)
                    => tasks[i].conn \in Range(channels'[tasks[i].ev.channelId])]_vars

\* the channel has a stored message, the listing of a later join failed, and the
\* joiner has just been sent a history batch with no items
C29_EmptyHistory ==
  /\ nfail = 1 /\ last.op = "resume" /\ last.data.type = "join"
  /\ \E m \in Range(messagesCollection) : m.channelId = last.data.channelId
  /\ Len(sent) = 1 /\ sent[1].to = last.conn
  /\ sent[1].f.type = "history" /\ sent[1].f.items = <<>>

\* the leave announcements for channel k that a step delivers to d
LeaveFrames(d, k, out) ==
  SelectSeq(FramesTo(d, out),
            LAMBDA f : f.type = "system" /\ f.channelId = k
                       /\ \E n \in Names \cup {Undef} : f.content = LeftText(n))

\* the step starts the write of a leave message for channel k
LeaveWriteStarted(k) ==
  /\ Len(tasks') = Len(tasks) + 1
  /\ tasks'[Len(tasks')].kind = "leave"
  /\ tasks'[Len(tasks')].arg.type = "system"
  /\ tasks'[Len(tasks')].arg.channelId = k

\* C31: when a connection closes that is listed in the channel it last joined, every
\* other open member of that channel receives a "has left the channel" system frame
\* for the channel, the closing connection receives nothing and the write of the
\* leave message is started; when a connection closes that is listed in no channel,
\* no system frame is sent and no write is started.
C31_LeaveAnnounced ==
  [][\A c \in Conns :
       (Closes(c) /\ last'.op = "close" /\ last'.conn = c)
         => /\ FramesTo(c, sent') = <<>>
            /\ (Truthy(ws[c].channelId) /\ c \in Range(Members(ws[c].channelId)))
                 => /\ \A d \in Conns \ {c} :
                         (IsOpen(d) /\ d \in Range(Members(ws[c].channelId)))
                           => LeaveFrames(d, ws[c].channelId, sent') # <<>>
                    /\ LeaveWriteStarted(ws[c].channelId)
            /\ (\A k \in DOMAIN channels : c \notin Range(channels[k]))
                 => /\ \A k \in 1..Len(sent') : sent'[k].f.type # "system"
                    /\ tasks' = tasks]_vars

\* the join handler of task i has not yet sent its history batch, and its join is the
\* connection's only subscription to the channel
AwaitsHistory(i) ==
  /\ i \in 1..Len(tasks)
  /\ tasks[i].kind = "join" /\ tasks[i].pc = "getChannelMessages"
  /\ Truthy(tasks[i].ev.channelId)
  /\ Count(Members(tasks[i].ev.channelId), tasks[i].conn) = 1

\* C32: while the join handler of a connection has not yet sent the history batch of
\* the connection's first join of a channel, no step of another connection's handler
\* delivers a chat frame or a system frame of that channel to the connection.
C32_HistoryBeforeLive ==
  [][\A i \in 1..MaxConcurrent :
       (AwaitsHistory(i) /\ last'.conn # tasks[i].conn)
         => ChannelFrames(tasks[i].conn, tasks[i].ev.channelId, sent') = <<>>]_vars

\* the join handler of task i holds the fetched history of its first join of the
\* channel and has not sent it yet
HoldsHistory(i) ==
  /\ AwaitsHistory(i) /\ tasks[i].ready /\ IsOpen(tasks[i].conn)

\* x is the content of exactly one stored message
StoredOnce(x) == Cardinality({n \in 1..Len(messagesCollection) :
                                messagesCollection[n].content = x}) = 1

\* C33: a chat message that is in the history batch a join handler has fetched and is
\* about to send to the joining connection is not also delivered to that connection
\* as a live frame.
C33_ReplayOrLiveNotBoth ==
  [][\A i, j \in 1..MaxConcurrent :
       (/\ HoldsHistory(i) /\ ChatResumes(j)
        /\ StoredOnce(tasks[j].ev.content)
        /\ \E n \in 1..Len(tasks[i].rows) : tasks[i].rows[n].content = tasks[j].ev.content)
         => \A k \in 1..Len(sent') :
              sent'[k].to = tasks[i].conn => sent'[k].f.content # tasks[j].ev.content]_vars

\* C35: when the handlers of two different chat messages of the same connection for
\* the same channel are suspended at their storage calls, no member of the channel is
\* sent the message received second while the one received first has not been
\* broadcast.
C35_SenderOrderKept ==
  [][\A i, j \in 1..MaxConcurrent :
       (/\ i < j /\ j \in 1..Len(tasks)
        /\ tasks[i].kind = "chat" /\ tasks[j].kind = "chat"
        /\ tasks[i].conn = tasks[j].conn
        /\ tasks[i].ev.channelId = tasks[j].ev.channelId
        /\ tasks[i].ev.content # tasks[j].ev.content)
         => ~(ChatResumes(j) /\ \E k \in 1..Len(sent') :
                                  sent'[k].f.content = tasks[j].ev.content)]_vars

\* the history fetch of the join handler of task i returns in this step
FetchReturns(i) ==
  /\ i \in 1..Len(tasks)
  /\ tasks[i].kind = "join" /\ tasks[i].pc = "getChannelMessages" /\ ~tasks[i].ready
  /\ last'.op = "storage" /\ last'.conn = tasks[i].conn
  /\ Len(tasks') = Len(tasks) /\ tasks'[i].ready

\* the join handler of task i resumes from its history fetch in this step and sends
\* the batch to the joiner
SendsHistory(i) ==
  /\ i \in 1..Len(tasks)
  /\ tasks[i].kind = "join" /\ tasks[i].pc = "getChannelMessages" /\ tasks[i].ready
  /\ IsOpen(tasks[i].conn)
  /\ last'.op = "resume" /\ last'.conn = tasks[i].conn
  /\ Len(tasks') = Len(tasks) /\ tasks'[i].pc = "getPatientById"

\* the stored chat messages of channel k
StoredChats(k) ==
  {m \in Range(messagesCollection) : m.channelId = k /\ m.type \in {"text", "attachment"}}

\* every chat handler has finished: each stored chat message has been broadcast
AllBroadcast == \A j \in 1..Len(tasks) : tasks[j].kind # "chat"

\* the history batch a step sends to connection c
HistoryTo(c, out) ==
  UNION {Range(f.items) : f \in {g \in Range(FramesTo(c, out)) : g.type = "history"}}

HasLeft(c) ==
  ws[c].readyState = "CLOSED" /\ Truthy(ws[c].channelId) /\ Truthy(ws[c].username)

\* C36: once the close handler of a connection has announced that it left its channel,
\* no step delivers a "has joined the channel" frame of a join handler of that
\* connection, and no step stores the join message of one.
C36_NoJoinAfterLeave ==
  [][\A i \in 1..(MaxTasks + NConn) :
       (/\ i \in 1..Len(tasks) /\ tasks[i].kind = "join" /\ HasLeft(tasks[i].conn)
        /\ last'.conn = tasks[i].conn)
         => /\ last'.op = "resume"
                 => \A k \in 1..Len(sent') : sent'[k].f # JoinedFrame(tasks[i])
            /\ (last'.op = "storage" /\ tasks[i].pc = "addMessageToChannel")
                 => messagesCollection' = messagesCollection]_vars

\* the open connections bound to identity x
OpenHolders(x) == {d \in Conns : IsOpen(d) /\ ~Unidentified(d) /\ IdentityOf(d) = x}

\* C37: the close of a connection bound to an identity sends no offline presence frame
\* for that identity while another open connection is bound to it.
C37_OfflineOnlyForLastHolder ==
  (last.op = "close" /\ ~Unidentified(last.conn)
     /\ OpenHolders(IdentityOf(last.conn)) # {})
    => \A k \in 1..Len(sent) :
         ~(/\ sent[k].f.type = "userStatus" /\ sent[k].f.status = "offline"
           /\ sent[k].f.id = IdentityOf(last.conn))

\* C38: an open connection is listed in no channel but the one it joined last, every
\* channel frame delivered to a connection is for the channel it joined last, and a
\* connection with a bound username that has closed is listed in no channel.
C38_AtMostOneSubscription ==
  /\ \A c \in Conns, k \in DOMAIN channels :
       (IsOpen(c) /\ c \in Range(channels[k])) => k = ws[c].channelId
  /\ \A n \in 1..Len(sent) :
       sent[n].f.type \in {"system", "message", "attachment"}
         => sent[n].f.channelId = ws[sent[n].to].channelId
  /\ \A c \in Conns, k \in DOMAIN channels :
       (ws[c].readyState = "CLOSED" /\ Truthy(ws[c].username))
         => c \notin Range(channels[k])

\* c is open and has no entry in the member list of channel k: it never joined k
NeverJoined(c, k) == IsOpen(c) /\ c \notin Range(Members(k))

\* C39: a chat event of an open connection that is not a member of the channel it
\* names stores no message and delivers no frame, and a callSignal event of such a
\* connection delivers no frame.
C39_MembershipGatesSending ==
  [][/\ \A i \in 1..(MaxTasks + NConn) :
          (/\ i \in 1..Len(tasks) /\ tasks[i].kind = "chat"
           /\ NeverJoined(tasks[i].conn, tasks[i].ev.channelId)
           /\ last'.conn = tasks[i].conn)
            => /\ last'.op = "storage" => messagesCollection' = messagesCollection
               /\ ChatResumes(i) => sent' = <<>>
     /\ (last'.op = "callSignal" /\ nev' = nev + 1
         /\ NeverJoined(last'.conn, last'.data.channelId))
          => sent' = <<>>]_vars

====
